---- MODULE Spec2Model ----
(***************************************************************************)
(* A model of the endgame grid library: the compass Direction primitive,   *)
(* the Square, Hex and Triangle coordinate types, the dynamic (tagged      *)
(* union) coordinate that dispatches to them, and the iterators the        *)
(* coordinates hand out.  Every operation of the library is a pure         *)
(* function of immutable values; the state machines below are the callers  *)
(* of the library: they pick the arguments, call an operation, keep what   *)
(* it returned and pull the iterators one `next` at a time.                *)
(***************************************************************************)
EXTENDS Integers, Sequences, FiniteSets, TLC

VARIABLES
    pc,      \* position of the caller
    input,   \* the arguments the caller chose
    iter,    \* the fields of the iterator being pulled (or of a running loop)
    output   \* what the calls returned so far

vars == <<pc, input, iter, output>>

(***************************************************************************)
(* Bounds of the model.                                                    *)
(***************************************************************************)
\* Coordinates components are drawn from -MaxCoord..MaxCoord.
MaxCoord == 2
\* The face-move walk of SpecWalk stops after MaxWalk moves.
MaxWalk == 3
\* SpecRotate rotates a coordinate at most MaxTurns times each way.
MaxTurns == 6
\* SpecDirection uses the ranges ..n and ..=n with n <= MaxRange, and takes
\* at most MaxRange + 2 coordinates from the unbounded range.
MaxRange == 3
\* SpecOffset scales the integer widths down: i32 is IntBits bits wide and
\* isize (on a 64-bit target) twice that.
IntBits == 3

Components == (0 - MaxCoord)..MaxCoord

\* grid_reflection gives up once a hundred reflections did not lead back.
REFLECTION_LIMIT == 100

(***************************************************************************)
(* Option<T>                                                               *)
(***************************************************************************)
None == [some |-> FALSE]
\* The outcome of a call that panics.
Panic == [panic |-> TRUE]
Some(v) == [some |-> TRUE, v |-> v]

(***************************************************************************)
(* Integer helpers with Rust's meaning.                                    *)
(***************************************************************************)
abs(v) == IF v < 0 THEN 0 - v ELSE v
signum(v) == IF v > 0 THEN 1 ELSE IF v < 0 THEN 0 - 1 ELSE 0
\* Rust's `/` on integers truncates towards zero.
trunc_div(n, m) == IF n >= 0 THEN n \div m ELSE 0 - ((0 - n) \div m)
\* rem_euclid: the non-negative remainder.
rem_euclid(n, m) == n % m

(***************************************************************************)
(* endgame_direction: Direction, a #[repr(u8)] enum counted                *)
(* counter-clockwise from East.                                            *)
(***************************************************************************)
East == 0
NorthEast == 1
North == 2
NorthWest == 3
West == 4
SouthWest == 5
South == 6
SouthEast == 7

\* Direction::VALUES = DirectionSet(0b11111111)
VALUES == {East, NorthEast, North, NorthWest, West, SouthWest, South, SouthEast}

\* Direction::opposite: from_u8(((self as u8) + 4) % 8)
opposite(dir) == (dir + 4) % 8

\* DirectionType and its Not.
Face == "Face"
Vertex == "Vertex"
DirectionTypes == {Face, Vertex}
not_dir_type(dir_type) == IF dir_type = Face THEN Vertex ELSE Face

(***************************************************************************)
(* Color and TryFrom<usize> for Color                                      *)
(***************************************************************************)
Colors == {"One", "Two", "Three", "Four"}

Color_try_from(value) ==
    CASE value = 1 -> [ok |-> TRUE, v |-> "One"]
      [] value = 2 -> [ok |-> TRUE, v |-> "Two"]
      [] value = 3 -> [ok |-> TRUE, v |-> "Three"]
      [] value = 4 -> [ok |-> TRUE, v |-> "Four"]
      [] OTHER -> [ok |-> FALSE]

(***************************************************************************)
(* square::Coord(IVec2)                                                    *)
(***************************************************************************)
ivec2(x, y) == [x |-> x, y |-> y]
ivec2_add(u, v) == ivec2(u.x + v.x, u.y + v.y)

SQUARE_ALLOWED_FACE_DIRECTIONS == {North, East, South, West}
SQUARE_ALLOWED_VERTEX_DIRECTIONS == {NorthEast, SouthEast, SouthWest, NorthWest}

square_offset_in_direction(dir_type, dir) ==
    CASE dir_type = Face /\ dir = North -> Some(ivec2(0, 1))
      [] dir_type = Face /\ dir = East -> Some(ivec2(1, 0))
      [] dir_type = Face /\ dir = South -> Some(ivec2(0, 0 - 1))
      [] dir_type = Face /\ dir = West -> Some(ivec2(0 - 1, 0))
      [] dir_type = Vertex /\ dir = NorthEast -> Some(ivec2(1, 1))
      [] dir_type = Vertex /\ dir = SouthEast -> Some(ivec2(1, 0 - 1))
      [] dir_type = Vertex /\ dir = SouthWest -> Some(ivec2(0 - 1, 0 - 1))
      [] dir_type = Vertex /\ dir = NorthWest -> Some(ivec2(0 - 1, 1))
      [] OTHER -> None

\* Variant: a disallowed direction leaves the coordinate where it is.
square_move_in_direction_stay(c, dir_type, dir) ==
    LET offset == square_offset_in_direction(dir_type, dir)
    IN  IF offset.some THEN Some(ivec2_add(c, offset.v)) ELSE Some(c)

square_move_in_direction(c, dir_type, dir) ==
    LET offset == square_offset_in_direction(dir_type, dir)
    IN  IF offset.some THEN Some(ivec2_add(c, offset.v)) ELSE None

square_allowed_directions(dir_type) ==
    IF dir_type = Face THEN SQUARE_ALLOWED_FACE_DIRECTIONS
    ELSE SQUARE_ALLOWED_VERTEX_DIRECTIONS

square_allowed_direction(dir_type, dir) ==
    IF dir_type = Face THEN dir \in SQUARE_ALLOWED_FACE_DIRECTIONS
    ELSE dir \in SQUARE_ALLOWED_VERTEX_DIRECTIONS

square_distance(c, other) == abs(other.x - c.x) + abs(other.y - c.y)

square_grid_to_array_offset(c) == <<c.x, c.y>>

square_to_color(c) ==
    LET o == square_grid_to_array_offset(c)
        num == rem_euclid(o[1] + o[2], 2) + 1
    IN  Color_try_from(num)

(***************************************************************************)
(* hex::Coord(IVec2): axial q = x, r = y                                   *)
(***************************************************************************)
HEX_ALLOWED_FACE_DIRECTIONS ==
    {North, NorthEast, SouthEast, South, SouthWest, NorthWest}
HEX_ALLOWED_VERTEX_DIRECTIONS ==
    {NorthEast, East, SouthEast, SouthWest, West, NorthWest}

hex_offset_in_direction(dir_type, dir) ==
    CASE dir_type = Face /\ dir = NorthEast -> Some(ivec2(1, 0))
      [] dir_type = Face /\ dir = North -> Some(ivec2(0, 1))
      [] dir_type = Face /\ dir = NorthWest -> Some(ivec2(0 - 1, 1))
      [] dir_type = Face /\ dir = SouthWest -> Some(ivec2(0 - 1, 0))
      [] dir_type = Face /\ dir = South -> Some(ivec2(0, 0 - 1))
      [] dir_type = Face /\ dir = SouthEast -> Some(ivec2(1, 0 - 1))
      [] dir_type = Vertex /\ dir = East -> Some(ivec2(2, 0 - 1))
      [] dir_type = Vertex /\ dir = NorthEast -> Some(ivec2(1, 1))
      [] dir_type = Vertex /\ dir = NorthWest -> Some(ivec2(0 - 1, 2))
      [] dir_type = Vertex /\ dir = West -> Some(ivec2(0 - 2, 1))
      [] dir_type = Vertex /\ dir = SouthWest -> Some(ivec2(0 - 1, 0 - 1))
      [] dir_type = Vertex /\ dir = SouthEast -> Some(ivec2(1, 0 - 2))
      [] OTHER -> None

hex_move_in_direction(c, dir_type, dir) ==
    LET offset == hex_offset_in_direction(dir_type, dir)
    IN  IF offset.some THEN Some(ivec2_add(c, offset.v)) ELSE None

hex_allowed_directions(dir_type) ==
    IF dir_type = Face THEN HEX_ALLOWED_FACE_DIRECTIONS
    ELSE HEX_ALLOWED_VERTEX_DIRECTIONS

hex_allowed_direction(dir_type, dir) ==
    IF dir_type = Face THEN dir \in HEX_ALLOWED_FACE_DIRECTIONS
    ELSE dir \in HEX_ALLOWED_VERTEX_DIRECTIONS

hex_distance(c, other) ==
    LET dx == c.x - other.x
        dy == c.y - other.y
    IN  trunc_div(abs(dx) + abs(dy) + abs(dx + dy), 2)

\* (q, r + (q + (q & 1)) / 2); q & 1 is the low bit of the two's complement.
hex_grid_to_array_offset(c) ==
    <<c.x, c.y + trunc_div(c.x + (c.x % 2), 2)>>

\* Variant: the colour ignores the parity of the column.
hex_to_color_by_row(c) ==
    LET o == hex_grid_to_array_offset(c)
        num == rem_euclid(o[2], 3) + 1
    IN  Color_try_from(num)

hex_to_color(c) ==
    LET o == hex_grid_to_array_offset(c)
        num == rem_euclid(o[2] + rem_euclid(o[1], 2), 3) + 1
    IN  Color_try_from(num)

(***************************************************************************)
(* triangle::Coord(IVec2, TrianglePoint)                                   *)
(***************************************************************************)
Up == "Up"
Down == "Down"
TrianglePoints == {Up, Down}
point_opposite(point) == IF point = Up THEN Down ELSE Up

tri(x, y, point) == [x |-> x, y |-> y, point |-> point]
ivec3(x, y, z) == [x |-> x, y |-> y, z |-> z]

TRIANGLE_ALLOWED_DIRECTIONS_UP == {NorthEast, South, NorthWest}
\* ALLOWED_DIRECTIONS_UP.iter().map(|d| !d).collect()
TRIANGLE_ALLOWED_DIRECTIONS_DOWN ==
    {opposite(d) : d \in TRIANGLE_ALLOWED_DIRECTIONS_UP}

triangle_allowed_directions(c, dir_type) ==
    LET point == IF dir_type = Vertex THEN point_opposite(c.point) ELSE c.point
    IN  IF point = Up THEN TRIANGLE_ALLOWED_DIRECTIONS_UP
        ELSE TRIANGLE_ALLOWED_DIRECTIONS_DOWN

triangle_allowed_direction(c, dir_type, dir) ==
    dir \in triangle_allowed_directions(c, dir_type)

triangle_move_offset(dir_type, point, dir) ==
    CASE dir_type = Face /\ point = Up /\ dir = NorthEast -> Some(ivec2(0, 0))
      [] dir_type = Face /\ point = Up /\ dir = South -> Some(ivec2(0, 0 - 1))
      [] dir_type = Face /\ point = Up /\ dir = NorthWest -> Some(ivec2(0 - 1, 0))
      [] dir_type = Face /\ point = Down /\ dir = North -> Some(ivec2(0, 1))
      [] dir_type = Face /\ point = Down /\ dir = SouthEast -> Some(ivec2(1, 0))
      [] dir_type = Face /\ point = Down /\ dir = SouthWest -> Some(ivec2(0, 0))
      [] dir_type = Vertex /\ point = Up /\ dir = North -> Some(ivec2(0 - 1, 1))
      [] dir_type = Vertex /\ point = Up /\ dir = SouthEast -> Some(ivec2(1, 0 - 1))
      [] dir_type = Vertex /\ point = Up /\ dir = SouthWest -> Some(ivec2(0 - 1, 0 - 1))
      [] dir_type = Vertex /\ point = Down /\ dir = South -> Some(ivec2(1, 0 - 1))
      [] dir_type = Vertex /\ point = Down /\ dir = NorthWest -> Some(ivec2(0 - 1, 1))
      [] dir_type = Vertex /\ point = Down /\ dir = NorthEast -> Some(ivec2(1, 1))
      [] OTHER -> None

triangle_move_in_direction(c, dir_type, dir) ==
    LET offset == triangle_move_offset(dir_type, c.point, dir)
    IN  IF offset.some
        THEN Some(tri(c.x + offset.v.x, c.y + offset.v.y, point_opposite(c.point)))
        ELSE None

triangle_to_cubical(c) ==
    LET z_offset == IF c.point = Up THEN 2 ELSE 1
    IN  ivec3(c.x, c.y, z_offset - c.x - c.y)

\* Variant: the distance leaves out the third cubical component.
triangle_distance_planar(c, other) ==
    LET a == triangle_to_cubical(c)
        b == triangle_to_cubical(other)
    IN  abs(b.x - a.x) + abs(b.y - a.y)

triangle_distance(c, other) ==
    LET a == triangle_to_cubical(c)
        b == triangle_to_cubical(other)
    IN  abs(b.x - a.x) + abs(b.y - a.y) + abs(b.z - a.z)

triangle_grid_to_array_offset(c) ==
    LET x_offset == IF c.point = Up THEN 0 ELSE 1
    IN  <<c.x * 2 + x_offset, c.y>>

triangle_to_color(c) ==
    LET o == triangle_grid_to_array_offset(c)
        num == rem_euclid(o[1] + 2 * o[2], 2) + 1
    IN  Color_try_from(num)

(***************************************************************************)
(* dynamic::Coord: the tagged union over the three coordinate types.       *)
(***************************************************************************)
Square == "Square"
Hex == "Hex"
Triangle == "Triangle"
Kinds == {Square, Hex, Triangle}

dyn(kind, c) == [kind |-> kind, c |-> c]
map_dyn(kind, opt) == IF opt.some THEN Some(dyn(kind, opt.v)) ELSE None

move_in_direction(coord, dir_type, dir) ==
    CASE coord.kind = Square ->
            map_dyn(Square, square_move_in_direction(coord.c, dir_type, dir))
      [] coord.kind = Hex ->
            map_dyn(Hex, hex_move_in_direction(coord.c, dir_type, dir))
      [] coord.kind = Triangle ->
            map_dyn(Triangle, triangle_move_in_direction(coord.c, dir_type, dir))

allowed_direction(coord, dir_type, dir) ==
    CASE coord.kind = Square -> square_allowed_direction(dir_type, dir)
      [] coord.kind = Hex -> hex_allowed_direction(dir_type, dir)
      [] coord.kind = Triangle -> triangle_allowed_direction(coord.c, dir_type, dir)

allowed_directions(coord, dir_type) ==
    CASE coord.kind = Square -> square_allowed_directions(dir_type)
      [] coord.kind = Hex -> hex_allowed_directions(dir_type)
      [] coord.kind = Triangle -> triangle_allowed_directions(coord.c, dir_type)

\* The callers below only pair coordinates of one kind; the mixed-kind
\* panic of the wrapper is the Panic outcome.
distance(coord, other) ==
    CASE coord.kind = Square /\ other.kind = Square -> square_distance(coord.c, other.c)
      [] coord.kind = Hex /\ other.kind = Hex -> hex_distance(coord.c, other.c)
      [] coord.kind = Triangle /\ other.kind = Triangle ->
            triangle_distance(coord.c, other.c)
      [] OTHER -> Panic

to_color(coord) ==
    CASE coord.kind = Square -> square_to_color(coord.c)
      [] coord.kind = Hex -> hex_to_color(coord.c)
      [] coord.kind = Triangle -> triangle_to_color(coord.c)

(***************************************************************************)
(* The coordinates the callers draw their arguments from.                  *)
(***************************************************************************)
SquareCoords == {dyn(Square, ivec2(x, y)) : x \in Components, y \in Components}
HexCoords == {dyn(Hex, ivec2(x, y)) : x \in Components, y \in Components}
TriangleCoords ==
    {dyn(Triangle, tri(x, y, p)) : x \in Components, y \in Components, p \in TrianglePoints}
Coords == SquareCoords \cup HexCoords \cup TriangleCoords

Idle == [op |-> "none"]

(***************************************************************************)
(* SpecMove: a caller moves from a coordinate in a direction, moves back   *)
(* in the opposite direction, and colours both ends of the move            *)
(* (grid_tests.rs: grid_direction, grid_color).                            *)
(***************************************************************************)
InitMove ==
    /\ pc = "start"
    /\ input \in [coord : Coords, dir_type : DirectionTypes, dir : VALUES]
    /\ iter = Idle
    /\ output = [op |-> "none"]

MoveInDirection ==
    /\ pc = "start"
    /\ pc' = "moved"
    /\ output' = [op |-> "move",
                  listed |-> input.dir \in allowed_directions(input.coord, input.dir_type),
                  allowed |-> allowed_direction(input.coord, input.dir_type, input.dir),
                  moved |-> move_in_direction(input.coord, input.dir_type, input.dir),
                  returned |-> None]
    /\ UNCHANGED <<input, iter>>

MoveBack ==
    /\ pc = "moved"
    /\ output.moved.some
    /\ pc' = "returned"
    /\ output' = [output EXCEPT
                    !.returned = move_in_direction(output.moved.v, input.dir_type,
                                                   opposite(input.dir))]
    /\ UNCHANGED <<input, iter>>

ColorMove ==
    /\ pc = "returned"
    /\ input.dir_type = Face
    /\ pc' = "colored"
    /\ output' = [op |-> "color",
                  moved |-> output.moved,
                  color |-> to_color(input.coord),
                  adjacent_color |-> to_color(output.moved.v)]
    /\ UNCHANGED <<input, iter>>

NextMove == MoveInDirection \/ MoveBack \/ ColorMove

SpecMove == InitMove /\ [][NextMove]_vars

\* C1: a direction listed in allowed_directions is allowed, moves to another
\* coordinate, and the opposite direction moves back to the start; a
\* direction that is not listed is not allowed and moves nowhere.
C1_MoveAndReturn ==
    /\ pc \in {"moved", "returned"} =>
          IF output.listed
          THEN /\ output.allowed
               /\ output.moved.some
               /\ output.moved.v # input.coord
          ELSE /\ ~output.allowed
               /\ ~output.moved.some
    /\ pc = "returned" => output.returned = Some(input.coord)

C1_Witness ==
    /\ pc = "returned"
    /\ input.coord.kind = Triangle
    /\ input.dir_type = Vertex
    /\ output.returned = Some(input.coord)

\* C2: a coordinate and each of its face neighbours get different colours,
\* and to_color's conversion to a Color does not fail.
C2_AdjacentColorsDiffer ==
    pc = "colored" =>
        /\ output.color.ok
        /\ output.adjacent_color.ok
        /\ output.color.v \in Colors
        /\ output.adjacent_color.v \in Colors
        /\ output.color.v # output.adjacent_color.v

C2_Witness ==
    /\ pc = "colored"
    /\ input.coord.kind = Hex
    /\ input.coord.c.x < 0
    /\ output.color.ok

(***************************************************************************)
(* SpecWalk: a caller walks away from a coordinate one face move at a      *)
(* time, in every allowed face direction at once, and asks the library for *)
(* the distance of every coordinate it comes to.  iter.frontier holds the  *)
(* coordinates first reached with exactly iter.depth moves, iter.seen the  *)
(* ones reached with at most that many.                                    *)
(***************************************************************************)
\* The coordinates of coord's kind whose components are within `reach` of it.
Box(coord, reach) ==
    LET xs == (coord.c.x - reach)..(coord.c.x + reach)
        ys == (coord.c.y - reach)..(coord.c.y + reach)
    IN  IF coord.kind = Triangle
        THEN {dyn(Triangle, tri(x, y, p)) : x \in xs, y \in ys, p \in TrianglePoints}
        ELSE {dyn(coord.kind, ivec2(x, y)) : x \in xs, y \in ys}

FaceNeighbours(cs) ==
    {move_in_direction(c, Face, d).v :
        <<c, d>> \in {<<c, d>> \in cs \X VALUES : allowed_direction(c, Face, d)}}

WalkOutput(coord, frontier, depth) ==
    [op |-> "distance",
     there |-> [c \in frontier |-> distance(coord, c)],
     back |-> [c \in frontier |-> distance(c, coord)],
     near |-> {c \in Box(coord, depth + 1) : distance(coord, c) <= depth}]

InitWalk ==
    /\ pc = "walk"
    /\ input \in [coord : Coords]
    /\ iter = [depth |-> 0, frontier |-> {input.coord}, seen |-> {input.coord}]
    /\ output = WalkOutput(input.coord, {input.coord}, 0)

FaceStep ==
    /\ pc = "walk"
    /\ iter.depth < MaxWalk
    /\ LET next == FaceNeighbours(iter.frontier) \ iter.seen
       IN  /\ iter' = [depth |-> iter.depth + 1,
                       frontier |-> next,
                       seen |-> iter.seen \cup next]
           /\ output' = WalkOutput(input.coord, next, iter.depth + 1)
    /\ UNCHANGED <<pc, input>>

NextWalk == FaceStep

SpecWalk == InitWalk /\ [][NextWalk]_vars

\* C3: distance(a, b) is the least number of face moves that lead from a to
\* b: the coordinates first reached with exactly k moves are at distance k
\* (in both argument orders), and the coordinates at distance at most k are
\* exactly the ones reached with at most k moves.
C3_DistanceIsFaceMoves ==
    /\ \A c \in iter.frontier :
          /\ output.there[c] = iter.depth
          /\ output.back[c] = iter.depth
    /\ output.near = iter.seen

C3_Witness ==
    /\ iter.depth = MaxWalk
    /\ input.coord.kind = Triangle
    /\ Cardinality(iter.frontier) > 3
    /\ output.near = iter.seen

(***************************************************************************)
(* Path iterators.  The library interpolates in f32; the model keeps the   *)
(* interpolated point exact, as a numerator over the denominator `steps`.  *)
(* Where two f32 values the code compares (or a value and the rounding     *)
(* boundary) are exactly equal in the reals, the rounding error of the f32 *)
(* evaluation decides the comparison, so the model allows both outcomes.   *)
(* Every `next` returns the set of [iter, item] results the call can have. *)
(***************************************************************************)
\* steps * start.lerp(end, index / steps), one component
\* Variant: the interpolation runs from end to start.
lerp_num_reversed(start, end, index, steps) == steps * end + (start - end) * index

lerp_num(start, end, index, steps) == steps * start + (end - start) * index

\* Variant: the candidate with the largest error wins.
max_error(errs) == {e \in errs : \A o \in errs : e.err >= o.err}

min_error(errs) == {e \in errs : \A o \in errs : e.err <= o.err}

SquarePathIter_new(start, end) ==
    [kind |-> Square,
     current |-> start,
     delta |-> ivec2(signum(end.x - start.x), signum(end.y - start.y)),
     start_frac |-> start,
     end_frac |-> end,
     index |-> 0,
     steps |-> square_distance(start, end)]

\* err holds steps^2 times the squared length the code compares; an axis
\* whose delta is zero has error INFINITY and is only picked (to no effect)
\* when both are.
SquarePathIter_next(it) ==
    IF it.index > it.steps THEN {[iter |-> it, item |-> None]}
    ELSE
        LET tx == lerp_num(it.start_frac.x, it.end_frac.x, it.index + 1, it.steps)
            ty == lerp_num(it.start_frac.y, it.end_frac.y, it.index + 1, it.steps)
            axes == {a \in {ivec2(1, 0), ivec2(0, 1)} :
                        it.delta.x * a.x + it.delta.y * a.y # 0}
            errs == {[coord |-> ivec2(it.current.x + it.delta.x * a.x,
                                      it.current.y + it.delta.y * a.y),
                      err |-> (tx - it.steps * (it.current.x + it.delta.x * a.x)) ^ 2
                            + (ty - it.steps * (it.current.y + it.delta.y * a.y)) ^ 2] :
                     a \in axes}
            nexts == IF axes = {} THEN {it.current}
                     ELSE {e.coord : e \in min_error(errs)}
        IN  {[iter |-> [it EXCEPT !.current = n, !.index = it.index + 1],
              item |-> Some(dyn(Square, it.current))] : n \in nexts}

hex_to_cubical(c) == ivec3(c.x, 0 - c.x - c.y, c.y)
\* from_cubical asserts that the components sum to zero.
hex_from_cubical(cube) ==
    IF cube.x + cube.y + cube.z = 0 THEN ivec2(cube.x, cube.z) ELSE Panic

\* f32::round of num / den (den > 0): the nearest integer; a value half way
\* between two integers may land on either.
round(num, den) ==
    LET lo == num \div den
        r == num - lo * den
    IN  IF 2 * r < den THEN {lo} ELSE IF 2 * r > den THEN {lo + 1} ELSE {lo, lo + 1}

\* hex_round of the point cube / den.
hex_round(cube, den) ==
    LET fix(rx, ry, rz) ==
            LET x_diff == abs(rx * den - cube.x)
                y_diff == abs(ry * den - cube.y)
                z_diff == abs(rz * den - cube.z)
                x_most == x_diff > y_diff /\ x_diff > z_diff
            IN  (IF x_diff >= y_diff /\ x_diff >= z_diff
                 THEN {ivec3(0 - ry - rz, ry, rz)} ELSE {})
                \cup (IF ~x_most /\ y_diff >= z_diff
                      THEN {ivec3(rx, 0 - rx - rz, rz)} ELSE {})
                \cup (IF ~x_most /\ y_diff <= z_diff
                      THEN {ivec3(rx, ry, 0 - rx - ry)} ELSE {})
    IN  UNION {fix(rx, ry, rz) :
                  <<rx, ry, rz>> \in round(cube.x, den) \X round(cube.y, den)
                                        \X round(cube.z, den)}

HexLineIter_new(start, end, steps) ==
    [kind |-> Hex, start |-> start, end |-> end, index |-> 0, steps |-> steps]

HexLineIter_next(it) ==
    IF it.index > it.steps THEN {[iter |-> it, item |-> None]}
    ELSE
        LET point == ivec3(lerp_num(it.start.x, it.end.x, it.index, it.steps),
                           lerp_num(it.start.y, it.end.y, it.index, it.steps),
                           lerp_num(it.start.z, it.end.z, it.index, it.steps))
            rounded == IF it.steps = 0 THEN hex_round(it.start, 1)
                       ELSE hex_round(point, it.steps)
        IN  {[iter |-> [it EXCEPT !.index = it.index + 1],
              item |-> Some(dyn(Hex, hex_from_cubical(r)))] : r \in rounded}

\* SizedGrid::new(1.0).grid_to_screen(c) is the point (sqrt(3) * u, v): the
\* basis vectors are (sqrt(3)/2, -1/2), (0, 1) and (-sqrt(3)/2, -1/2) and the
\* circumradius is 2.
triangle_grid_to_screen(c) ==
    LET cubical_coord == triangle_to_cubical(c)
        offset_coord == ivec3(cubical_coord.x, cubical_coord.y, cubical_coord.z - 2)
    IN  [u |-> offset_coord.x - offset_coord.z,
         v |-> 2 * offset_coord.y - offset_coord.x - offset_coord.z]

TrianglePathIter_new(start, end) ==
    [kind |-> Triangle,
     start_frac |-> triangle_grid_to_screen(start),
     end_frac |-> triangle_grid_to_screen(end),
     current |-> start,
     index |-> 0,
     steps |-> triangle_distance(start, end)]

\* err holds steps^2 times the squared length the code compares.
TrianglePathIter_next(it) ==
    IF it.index > it.steps THEN {[iter |-> it, item |-> None]}
    ELSE IF it.steps = 0
    THEN {[iter |-> [it EXCEPT !.index = it.index + 1],
           item |-> Some(dyn(Triangle, it.current))]}
    ELSE
        LET tu == lerp_num(it.start_frac.u, it.end_frac.u, it.index + 1, it.steps)
            tv == lerp_num(it.start_frac.v, it.end_frac.v, it.index + 1, it.steps)
            errs == {[coord |-> triangle_move_in_direction(it.current, Face, d).v,
                      err |-> LET new_frac == triangle_grid_to_screen(
                                      triangle_move_in_direction(it.current, Face, d).v)
                              IN  3 * (tu - it.steps * new_frac.u) ^ 2
                                    + (tv - it.steps * new_frac.v) ^ 2] :
                     d \in triangle_allowed_directions(it.current, Face)}
        IN  {[iter |-> [it EXCEPT !.current = e.coord, !.index = it.index + 1],
              item |-> Some(dyn(Triangle, it.current))] : e \in min_error(errs)}

\* dynamic::Coord::path_iterator
path_iterator(coord, other) ==
    CASE coord.kind = Square /\ other.kind = Square ->
            SquarePathIter_new(coord.c, other.c)
      [] coord.kind = Hex /\ other.kind = Hex ->
            HexLineIter_new(hex_to_cubical(coord.c), hex_to_cubical(other.c),
                            hex_distance(coord.c, other.c))
      [] coord.kind = Triangle /\ other.kind = Triangle ->
            TrianglePathIter_new(coord.c, other.c)
      [] OTHER -> Panic

(***************************************************************************)
(* SpecPath: a caller takes the path iterator between two coordinates of   *)
(* one kind and pulls it until it returns None (grid_tests.rs: grid_path). *)
(***************************************************************************)
SameKindPairs ==
    (SquareCoords \X SquareCoords) \cup (HexCoords \X HexCoords)
        \cup (TriangleCoords \X TriangleCoords)

InitPath ==
    /\ pc = "path"
    /\ \E p \in SameKindPairs : input = [a |-> p[1], b |-> p[2]]
    /\ iter = path_iterator(input.a, input.b)
    /\ output = [op |-> "path", yielded |-> <<>>, done |-> FALSE]

\* One call of next(): the item is appended, None ends the pulling.
Pull(results) ==
    /\ pc = "path"
    /\ \E r \in results :
          /\ iter' = r.iter
          /\ IF r.item.some
             THEN /\ output' = [output EXCEPT !.yielded = Append(@, r.item.v)]
                  /\ pc' = pc
             ELSE /\ output' = [output EXCEPT !.done = TRUE]
                  /\ pc' = "done"
    /\ UNCHANGED input

SquarePathNext == iter.kind = Square /\ Pull(SquarePathIter_next(iter))
HexLineNext == iter.kind = Hex /\ Pull(HexLineIter_next(iter))
TrianglePathNext == iter.kind = Triangle /\ Pull(TrianglePathIter_next(iter))

NextPath == SquarePathNext \/ HexLineNext \/ TrianglePathNext

SpecPath == InitPath /\ [][NextPath]_vars

\* The number of allowed face directions that move from c to n.
FaceDirectionsBetween(c, n) ==
    {d \in allowed_directions(c, Face) : move_in_direction(c, Face, d) = Some(n)}

\* C4: path_iterator(a, b) yields distance(a, b) + 1 coordinates, the first
\* is a, none is yielded twice, and each is reached from the one before it
\* by exactly one allowed face direction; for a = b it yields a alone.
C4_PathShape ==
    LET ys == output.yielded
    IN  /\ Len(ys) <= distance(input.a, input.b) + 1
        /\ output.done => Len(ys) = distance(input.a, input.b) + 1
        /\ Len(ys) >= 1 => ys[1] = input.a
        /\ \A i, j \in 1..Len(ys) : i # j => ys[i] # ys[j]
        /\ \A i \in 1..(Len(ys) - 1) :
              Cardinality(FaceDirectionsBetween(ys[i], ys[i + 1])) = 1
        /\ (output.done /\ input.a = input.b) => ys = <<input.a>>

C4_Witness ==
    /\ output.done
    /\ input.a.kind = Triangle
    /\ Len(output.yielded) = distance(input.a, input.b) + 1
    /\ Len(output.yielded) >= 6

\* C5: the last coordinate path_iterator(a, b) yields is b.
C5_PathEndsAtTarget ==
    output.done =>
        /\ Len(output.yielded) >= 1
        /\ output.yielded[Len(output.yielded)] = input.b

C5_Witness ==
    /\ output.done
    /\ input.a.kind = Hex
    /\ Len(output.yielded) >= 4
    /\ output.yielded[Len(output.yielded)] = input.b

(***************************************************************************)
(* Rotation and reflection about the origin.                               *)
(***************************************************************************)
square_rotate_clockwise(c) == ivec2(0 - c.y, c.x)
square_rotate_counterclockwise(c) == ivec2(c.y, 0 - c.x)

\* from_cubical(-(cubical.zxy())) and from_cubical(-(cubical.yzx()))
hex_rotate_clockwise(c) ==
    LET cubical == hex_to_cubical(c)
    IN  hex_from_cubical(ivec3(0 - cubical.z, 0 - cubical.x, 0 - cubical.y))
hex_rotate_counterclockwise(c) ==
    LET cubical == hex_to_cubical(c)
    IN  hex_from_cubical(ivec3(0 - cubical.y, 0 - cubical.z, 0 - cubical.x))

\* from_cubical asserts that the components sum to 1 (Down) or 2 (Up).
triangle_from_cubical(coord) ==
    LET sum == coord.x + coord.y + coord.z
        up == sum = 2
        z_offset == IF up THEN 2 ELSE 1
    IN  IF sum = 1 \/ sum = 2
        THEN tri(z_offset - coord.y - coord.z, z_offset - coord.x - coord.z,
                 IF up THEN Up ELSE Down)
        ELSE Panic

\* Variant: the clockwise rotation permutes the components the other way.
triangle_rotate_clockwise_zxy(c) ==
    LET t == triangle_to_cubical(c)
        cubical == ivec3(t.x, t.y, t.z - 2)
        inner == ivec3(1 - cubical.z, 1 - cubical.x, 1 - cubical.y)
        result == ivec3(1 - inner.z, 1 - inner.x, 1 - inner.y)
    IN  triangle_from_cubical(ivec3(result.x, result.y, result.z + 2))

\* Variant: the inner step alone, IVec3::ONE - cubical.yzx().
triangle_rotate_clockwise_half(c) ==
    LET t == triangle_to_cubical(c)
        cubical == ivec3(t.x, t.y, t.z - 2)
        result == ivec3(1 - cubical.y, 1 - cubical.z, 1 - cubical.x)
    IN  triangle_from_cubical(ivec3(result.x, result.y, result.z + 2))

\* IVec3::ONE - (IVec3::ONE - cubical.yzx()).yzx()
triangle_rotate_clockwise(c) ==
    LET t == triangle_to_cubical(c)
        cubical == ivec3(t.x, t.y, t.z - 2)
        inner == ivec3(1 - cubical.y, 1 - cubical.z, 1 - cubical.x)
        result == ivec3(1 - inner.y, 1 - inner.z, 1 - inner.x)
    IN  triangle_from_cubical(ivec3(result.x, result.y, result.z + 2))

\* IVec3::ONE - (IVec3::ONE - cubical.zxy()).zxy()
triangle_rotate_counterclockwise(c) ==
    LET t == triangle_to_cubical(c)
        cubical == ivec3(t.x, t.y, t.z - 2)
        inner == ivec3(1 - cubical.z, 1 - cubical.x, 1 - cubical.y)
        result == ivec3(1 - inner.z, 1 - inner.x, 1 - inner.y)
    IN  triangle_from_cubical(ivec3(result.x, result.y, result.z + 2))

rotate_clockwise(coord) ==
    CASE coord.kind = Square -> dyn(Square, square_rotate_clockwise(coord.c))
      [] coord.kind = Hex -> dyn(Hex, hex_rotate_clockwise(coord.c))
      [] coord.kind = Triangle -> dyn(Triangle, triangle_rotate_clockwise(coord.c))

rotate_counterclockwise(coord) ==
    CASE coord.kind = Square -> dyn(Square, square_rotate_counterclockwise(coord.c))
      [] coord.kind = Hex -> dyn(Hex, hex_rotate_counterclockwise(coord.c))
      [] coord.kind = Triangle ->
            dyn(Triangle, triangle_rotate_counterclockwise(coord.c))

\* Coord::rotate: steps > 0 rotates clockwise steps times, otherwise
\* counter-clockwise -steps times.
RECURSIVE rotate(_, _)
rotate(coord, steps) ==
    IF steps > 0 THEN rotate(rotate_clockwise(coord), steps - 1)
    ELSE IF steps < 0 THEN rotate(rotate_counterclockwise(coord), steps + 1)
    ELSE coord

(***************************************************************************)
(* SpecRotate: a caller rotates a coordinate step by step in both          *)
(* orientations, undoes each step with the other orientation, and compares *)
(* with rotate(steps) (grid_tests.rs: grid_rotation).                      *)
(***************************************************************************)
RotateOutput(coord, cw, ccw, count) ==
    [op |-> "rotate",
     cw_undone |-> rotate_counterclockwise(rotate_clockwise(cw)),
     ccw_undone |-> rotate_clockwise(rotate_counterclockwise(ccw)),
     by_steps |-> rotate(coord, count),
     by_neg_steps |-> rotate(coord, 0 - count)]

InitRotate ==
    /\ pc = "rotate"
    /\ input \in [coord : Coords]
    /\ iter = [count |-> 0, cw |-> input.coord, ccw |-> input.coord]
    /\ output = RotateOutput(input.coord, input.coord, input.coord, 0)

RotateOnce ==
    /\ pc = "rotate"
    /\ iter.count < MaxTurns
    /\ LET cw == rotate_clockwise(iter.cw)
           ccw == rotate_counterclockwise(iter.ccw)
       IN  /\ iter' = [count |-> iter.count + 1, cw |-> cw, ccw |-> ccw]
           /\ output' = RotateOutput(input.coord, cw, ccw, iter.count + 1)
    /\ UNCHANGED <<pc, input>>

NextRotate == RotateOnce

SpecRotate == InitRotate /\ [][NextRotate]_vars

\* C6: a clockwise rotation is undone by a counter-clockwise one and the
\* other way round, rotate(0) is the identity, rotate(n) is n clockwise and
\* rotate(-n) n counter-clockwise rotations, and 4 (Square), 6 (Hex) or
\* 3 (Triangle) rotations in one orientation lead back to the coordinate.
C6_RotationPeriod ==
    LET period == CASE input.coord.kind = Square -> 4
                    [] input.coord.kind = Hex -> 6
                    [] input.coord.kind = Triangle -> 3
    IN  /\ output.cw_undone = iter.cw
        /\ output.ccw_undone = iter.ccw
        /\ output.by_steps = iter.cw
        /\ output.by_neg_steps = iter.ccw
        /\ iter.count = 0 => output.by_steps = input.coord
        /\ iter.count = period => (iter.cw = input.coord /\ iter.ccw = input.coord)

C6_Witness ==
    /\ input.coord.kind = Triangle
    /\ input.coord.c.point = Down
    /\ iter.count = 3
    /\ iter.cw = input.coord
    /\ rotate_clockwise(input.coord) # input.coord

(***************************************************************************)
(* reflect(axis)                                                           *)
(***************************************************************************)
\* Kind::axes: the axes of a kind in their listed order.
axes(kind) ==
    CASE kind = Square -> <<"X", "Y">>
      [] kind = Hex -> <<"Q", "R", "S">>
      [] kind = Triangle -> <<"A", "B", "C">>

square_reflect(c, axis) ==
    LET transform == IF axis = "X" THEN ivec2(0 - 1, 1) ELSE ivec2(1, 0 - 1)
    IN  ivec2(c.x * transform.x, c.y * transform.y)

\* Variant: the R axis permutes all three components.
hex_reflect_turned(c, axis) ==
    LET cubical == hex_to_cubical(c)
    IN  hex_from_cubical(
            CASE axis = "Q" -> ivec3(cubical.x, cubical.z, cubical.y)
              [] axis = "R" -> ivec3(cubical.z, cubical.x, cubical.y)
              [] axis = "S" -> ivec3(cubical.z, cubical.y, cubical.x))

\* Q => cubical.xzy(), R => cubical.yxz(), S => cubical.zyx()
hex_reflect(c, axis) ==
    LET cubical == hex_to_cubical(c)
    IN  hex_from_cubical(
            CASE axis = "Q" -> ivec3(cubical.x, cubical.z, cubical.y)
              [] axis = "R" -> ivec3(cubical.y, cubical.x, cubical.z)
              [] axis = "S" -> ivec3(cubical.z, cubical.y, cubical.x))

\* A => cubical.xzy(), B => cubical.zyx(), C => cubical.yxz(), on the
\* cubical coordinate shifted by (0, 0, -2)
triangle_reflect(c, axis) ==
    LET t == triangle_to_cubical(c)
        cubical == ivec3(t.x, t.y, t.z - 2)
        result == CASE axis = "A" -> ivec3(cubical.x, cubical.z, cubical.y)
                    [] axis = "B" -> ivec3(cubical.z, cubical.y, cubical.x)
                    [] axis = "C" -> ivec3(cubical.y, cubical.x, cubical.z)
    IN  triangle_from_cubical(ivec3(result.x, result.y, result.z + 2))

\* dynamic::Coord::reflect panics on an axis of another kind.
reflect(coord, axis) ==
    CASE coord.kind = Square /\ axis \in {"X", "Y"} ->
            dyn(Square, square_reflect(coord.c, axis))
      [] coord.kind = Hex /\ axis \in {"Q", "R", "S"} ->
            dyn(Hex, hex_reflect(coord.c, axis))
      [] coord.kind = Triangle /\ axis \in {"A", "B", "C"} ->
            dyn(Triangle, triangle_reflect(coord.c, axis))
      [] OTHER -> Panic

(***************************************************************************)
(* SpecReflect: the loop of grid_tests.rs grid_reflection.  It reflects    *)
(* across the axes of the kind, taken cyclically, until the coordinate is  *)
(* back where it started, and fails once count reaches REFLECTION_LIMIT.   *)
(* output.twice holds, per axis, the current coordinate reflected twice.   *)
(***************************************************************************)
ReflectTwice(coord) ==
    [op |-> "reflect",
     twice |-> [i \in DOMAIN axes(coord.kind) |->
                   reflect(reflect(coord, axes(coord.kind)[i]), axes(coord.kind)[i])]]

InitReflect ==
    /\ pc = "cycle"
    /\ input \in [coord : Coords]
    /\ iter = [reflected |-> input.coord, count |-> 0, axis |-> 1]
    /\ output = ReflectTwice(input.coord)

ReflectNext ==
    /\ pc = "cycle"
    /\ LET all == axes(input.coord.kind)
           reflected == reflect(iter.reflected, all[iter.axis])
           returned == reflected = input.coord
           count == IF returned THEN iter.count ELSE iter.count + 1
       IN  /\ iter' = [reflected |-> reflected,
                       count |-> count,
                       axis |-> (iter.axis % Len(all)) + 1]
           /\ pc' = IF returned THEN "returned"
                    ELSE IF count < REFLECTION_LIMIT THEN "cycle" ELSE "failed"
           /\ output' = ReflectTwice(reflected)
    /\ UNCHANGED input

NextReflect == ReflectNext

SpecReflect == InitReflect /\ [][NextReflect]_vars

\* C7: reflecting twice across one axis gives the coordinate back, and
\* reflecting across the axes of the kind in their listed order, cyclically,
\* leads back to the start before a hundred reflections were applied.
C7_ReflectionCycle ==
    /\ \A i \in DOMAIN output.twice : output.twice[i] = iter.reflected
    /\ pc # "failed"
    /\ iter.count + 1 < REFLECTION_LIMIT

C7_Witness ==
    /\ pc = "returned"
    /\ input.coord.kind = Hex
    /\ iter.count = 5
    /\ iter.reflected = input.coord

(***************************************************************************)
(* Array offsets.  grid_to_array_offset widens the i32 components to isize *)
(* and array_offset_to_grid narrows them back with `as i32`.  i32 is       *)
(* IntBits bits wide here, isize 2 * IntBits bits (a 64-bit target), so    *)
(* the isize arithmetic of grid_to_array_offset cannot overflow.  i32      *)
(* arithmetic that overflows panics when the build has overflow checks     *)
(* and wraps when it has not.                                              *)
(***************************************************************************)
I32_MIN == 0 - 2 ^ (IntBits - 1)
I32_MAX == 2 ^ (IntBits - 1) - 1
I32 == I32_MIN..I32_MAX

\* `v as i32`: the low IntBits bits, two's complement.
as_i32(v) == ((v - I32_MIN) % (2 ^ IntBits)) + I32_MIN

square_array_offset_to_grid(array_offset) ==
    ivec2(as_i32(array_offset[1]), as_i32(array_offset[2]))

\* Coord(x, y - (x + (x & 1)) / 2), in i32
hex_array_offset_to_grid(array_offset, overflow_checks) ==
    LET x == as_i32(array_offset[1])
        y == as_i32(array_offset[2])
        sum == x + (x % 2)
        diff == y - trunc_div(as_i32(sum), 2)
    IN  IF overflow_checks /\ (sum \notin I32 \/ diff \notin I32) THEN Panic
        ELSE ivec2(x, as_i32(diff))

triangle_array_offset_to_grid(array_offset) ==
    LET remainder == as_i32(rem_euclid(array_offset[1], 2))
        point == IF remainder = 0 THEN Up ELSE Down
    IN  tri(trunc_div(as_i32(array_offset[1]) - remainder, 2),
            as_i32(array_offset[2]), point)

array_offset_to_grid(kind, array_offset, overflow_checks) ==
    LET c == CASE kind = Square -> square_array_offset_to_grid(array_offset)
               [] kind = Hex -> hex_array_offset_to_grid(array_offset, overflow_checks)
               [] kind = Triangle -> triangle_array_offset_to_grid(array_offset)
    IN  IF c = Panic THEN Panic ELSE dyn(kind, c)

\* dynamic::Coord::grid_to_array_offset
grid_to_array_offset(coord) ==
    CASE coord.kind = Square -> square_grid_to_array_offset(coord.c)
      [] coord.kind = Hex -> hex_grid_to_array_offset(coord.c)
      [] coord.kind = Triangle -> triangle_grid_to_array_offset(coord.c)

(***************************************************************************)
(* SpecOffset: a caller converts a coordinate to its array offset and back *)
(* (grid_tests.rs: *_grid_to_array_offset), or an offset to its coordinate *)
(* and back.  The coordinates are all the i32 pairs, the offsets reach     *)
(* one bit beyond i32.                                                     *)
(***************************************************************************)
I32Coords ==
    {dyn(Square, ivec2(x, y)) : x \in I32, y \in I32}
        \cup {dyn(Hex, ivec2(x, y)) : x \in I32, y \in I32}
        \cup {dyn(Triangle, tri(x, y, p)) : x \in I32, y \in I32, p \in TrianglePoints}

Offsets == (2 * I32_MIN..2 * I32_MAX + 1) \X (2 * I32_MIN..2 * I32_MAX + 1)

InitOffset ==
    /\ \/ pc = "coord" /\ \E c \in I32Coords, b \in BOOLEAN :
              input = [kind |-> c.kind, start |-> c, overflow_checks |-> b]
       \/ pc = "offset" /\ \E o \in Offsets, k \in Kinds, b \in BOOLEAN :
              input = [kind |-> k, start |-> o, overflow_checks |-> b]
    /\ iter = [value |-> input.start, calls |-> 0]
    /\ output = [op |-> "none"]

GridToArrayOffset ==
    /\ pc = "coord"
    /\ iter.calls < 2
    /\ iter' = [value |-> grid_to_array_offset(iter.value), calls |-> iter.calls + 1]
    /\ pc' = "offset"
    /\ output' = [op |-> "grid_to_array_offset", of |-> iter.value, is |-> iter'.value]
    /\ UNCHANGED input

ArrayOffsetToGrid ==
    /\ pc = "offset"
    /\ iter.calls < 2
    /\ iter' = [value |-> array_offset_to_grid(input.kind, iter.value,
                                               input.overflow_checks),
                calls |-> iter.calls + 1]
    /\ pc' = IF iter'.value = Panic THEN "panicked" ELSE "coord"
    /\ output' = [op |-> "array_offset_to_grid", of |-> iter.value, is |-> iter'.value]
    /\ UNCHANGED input

NextOffset == GridToArrayOffset \/ ArrayOffsetToGrid

SpecOffset == InitOffset /\ [][NextOffset]_vars

\* C8: grid_to_array_offset and array_offset_to_grid undo each other, from
\* every coordinate and from every offset pair, and the Triangle coordinates
\* (0,0,Up) and (0,0,Down) have the offsets (0,0) and (1,0).
C8_OffsetRoundTrip ==
    /\ pc # "panicked"
    /\ iter.calls = 2 => iter.value = input.start
    /\ (output.op = "grid_to_array_offset" /\ output.of = dyn(Triangle, tri(0, 0, Up)))
          => output.is = <<0, 0>>
    /\ (output.op = "grid_to_array_offset" /\ output.of = dyn(Triangle, tri(0, 0, Down)))
          => output.is = <<1, 0>>

\* The Triangle coordinate a quarter of the i32 range east of the origin
\* comes back on the other side of the origin.
C8_Witness ==
    /\ iter.calls = 2
    /\ pc = "coord"
    /\ input.kind = Triangle
    /\ output.op = "array_offset_to_grid"
    /\ output.of = <<2 ^ (IntBits - 1), 0>>
    /\ output.is = dyn(Triangle, tri(0 - 2 ^ (IntBits - 2), 0, Up))

(***************************************************************************)
(* ModuleCoord arithmetic of square::Coord and hex::Coord.  Both wrap an   *)
(* IVec2 and implement the operators by the same code; the operators here  *)
(* act on the coordinate of either kind.  An i32 operation that overflows  *)
(* panics in a build with overflow checks and wraps in one without;        *)
(* a panic of an operand is the outcome of the whole expression.           *)
(***************************************************************************)
\* The IVec2 an i32 operation yields from the exact components x and y.
ivec2_i32(kind, x, y) ==
    IF x \in I32 /\ y \in I32 THEN dyn(kind, ivec2(x, y))
    ELSE IF input.overflow_checks THEN Panic
    ELSE dyn(kind, ivec2(as_i32(x), as_i32(y)))

default(kind) == dyn(kind, ivec2(0, 0))

neg(a) ==
    IF a = Panic THEN Panic ELSE ivec2_i32(a.kind, 0 - a.c.x, 0 - a.c.y)

add(a, other) ==
    IF a = Panic \/ other = Panic THEN Panic
    ELSE ivec2_i32(a.kind, a.c.x + other.c.x, a.c.y + other.c.y)

\* Variant: the operands of the subtraction are taken the other way round.
sub_swapped(a, other) ==
    IF a = Panic \/ other = Panic THEN Panic
    ELSE ivec2_i32(a.kind, other.c.x - a.c.x, other.c.y - a.c.y)

sub(a, other) ==
    IF a = Panic \/ other = Panic THEN Panic
    ELSE ivec2_i32(a.kind, a.c.x - other.c.x, a.c.y - other.c.y)

\* Coord(self.0 * (other as i32)), other an isize
mul(a, other) ==
    IF a = Panic THEN Panic
    ELSE ivec2_i32(a.kind, a.c.x * as_i32(other), a.c.y * as_i32(other))

\* The in-place operators: the value of self after the call.
add_assign(self, other) ==
    IF self = Panic \/ other = Panic THEN Panic
    ELSE ivec2_i32(self.kind, self.c.x + other.c.x, self.c.y + other.c.y)

sub_assign(self, other) ==
    IF self = Panic \/ other = Panic THEN Panic
    ELSE ivec2_i32(self.kind, self.c.x - other.c.x, self.c.y - other.c.y)

mul_assign(self, other) == mul(self, other)

(***************************************************************************)
(* SpecModule: a caller evaluates both sides of the module laws            *)
(* (grid_tests.rs: coord_neg .. coord_mul_distributive_ring) on two        *)
(* coordinates a and b of one kind; the third coordinate and the scalars   *)
(* are chosen by the law that needs them.  output.laws holds the two       *)
(* sides of every law evaluated.                                           *)
(***************************************************************************)
ModuleComponents == {I32_MIN, 0 - 1, 0, 1, I32_MAX}
ModuleCoords(kind) ==
    {dyn(kind, ivec2(x, y)) : x \in ModuleComponents, y \in ModuleComponents}
Scalars == {I32_MIN - 1, 0 - 2, 0 - 1, 0, 1, 2, I32_MAX + 1}

InitModule ==
    /\ pc = "start"
    /\ \E kind \in {Square, Hex} :
          input \in [a : ModuleCoords(kind), b : ModuleCoords(kind),
                     overflow_checks : BOOLEAN]
    /\ iter = Idle
    /\ output = [op |-> "none", laws |-> <<>>]

UnaryOps ==
    /\ pc = "start"
    /\ pc' = "done"
    /\ LET a == input.a
           origin == default(a.kind)
       IN  output' = [op |-> "unary",
                      laws |-> [neg_neg |-> <<neg(neg(a)), a>>,
                                add_neg |-> <<add(a, neg(a)), origin>>,
                                add_default |-> <<add(a, origin), a>>,
                                add_assign_default |-> <<add_assign(a, origin), a>>,
                                sub_default |-> <<sub(a, origin), a>>,
                                sub_self |-> <<sub(a, a), origin>>,
                                sub_assign_self |-> <<sub_assign(a, a), origin>>,
                                mul_zero |-> <<mul(a, 0), origin>>,
                                mul_one |-> <<mul(a, 1), a>>]]
    /\ UNCHANGED <<input, iter>>

BinaryOps ==
    /\ pc = "start"
    /\ pc' = "done"
    /\ LET a == input.a
           b == input.b
       IN  output' = [op |-> "binary",
                      laws |-> [add_comm |-> <<add(a, b), add(b, a)>>,
                                add_assign_comm |-> <<add_assign(a, b), add_assign(b, a)>>,
                                add_assign_add |-> <<add_assign(a, b), add(a, b)>>,
                                sub_anticomm |-> <<sub(a, b), neg(sub(b, a))>>,
                                sub_assign_anticomm |->
                                    <<sub_assign(a, b), neg(sub_assign(b, a))>>,
                                sub_assign_sub |-> <<sub_assign(a, b), sub(a, b)>>]]
    /\ UNCHANGED <<input, iter>>

AddAssoc ==
    /\ pc = "start"
    /\ pc' = "done"
    /\ \E c \in ModuleCoords(input.a.kind) :
          LET a == input.a
              b == input.b
          IN  output' = [op |-> "assoc", c |-> c,
                         laws |-> [add_assoc |-> <<add(add(a, b), c), add(a, add(b, c))>>,
                                   add_assign_assoc |->
                                       <<add_assign(add(a, b), c),
                                         add_assign(a, add(b, c))>>]]
    /\ UNCHANGED <<input, iter>>

MulLaws ==
    /\ pc = "start"
    /\ pc' = "done"
    /\ \E x \in Scalars, y \in Scalars :
          LET a == input.a
              b == input.b
          IN  output' = [op |-> "mul", x |-> x, y |-> y,
                         laws |-> [mul_assoc |-> <<mul(a, x * y), mul(mul(a, x), y)>>,
                                   mul_assign_assoc |->
                                       <<mul_assign(a, x * y),
                                         mul_assign(mul_assign(a, x), y)>>,
                                   mul_assign_mul |-> <<mul_assign(a, x), mul(a, x)>>,
                                   mul_distributive_coord |->
                                       <<mul(add(a, b), x), add(mul(a, x), mul(b, x))>>,
                                   mul_distributive_ring |->
                                       <<mul(a, x + y), add(mul(a, x), mul(a, y))>>]]
    /\ UNCHANGED <<input, iter>>

NextModule == UnaryOps \/ BinaryOps \/ AddAssoc \/ MulLaws

SpecModule == InitModule /\ [][NextModule]_vars

\* C9: unless an i32 operation overflows (and panics), the two sides of
\* every module law of Square and Hex coordinates are equal: commutativity,
\* associativity, identity and inverse of addition, anti-commutativity of
\* subtraction, multiplication by 0 and 1, both distributive laws, and the
\* in-place operators agreeing with the by-value ones.
C9_ModuleLaws ==
    \A law \in DOMAIN output.laws :
        \/ output.laws[law][1] = Panic
        \/ output.laws[law][2] = Panic
        \/ output.laws[law][1] = output.laws[law][2]

C9_Witness ==
    /\ pc = "done"
    /\ output.op = "mul"
    /\ input.overflow_checks
    /\ input.a.kind = Hex
    /\ input.a.c.x = 1
    /\ output.x = 2
    /\ output.y = 0 - 1
    /\ output.laws.mul_distributive_ring[1] = input.a
    /\ output.laws.mul_distributive_ring[2] = input.a
    /\ output.laws.mul_assoc[1] # Panic

(***************************************************************************)
(* Direction iterators.  A range is ..end ("to"), ..=end ("to_inclusive")  *)
(* or .. ("full").                                                         *)
(***************************************************************************)
\* Variant: an inclusive end bound is treated like an exclusive one.
complete_exclusive(range, index) ==
    CASE range.kind = "to_inclusive" -> index >= range.end
      [] range.kind = "to" -> index >= range.end
      [] range.kind = "full" -> FALSE

\* AllowedCoordIterRange::complete
complete(range, index) ==
    CASE range.kind = "to_inclusive" -> index > range.end
      [] range.kind = "to" -> index >= range.end
      [] range.kind = "full" -> FALSE

\* dynamic::Coord::direction_iterator: Square and Hex build a ModuleCoordIter
\* from their offset_in_direction, Triangle builds a DirectionIter.
direction_iterator(coord, dir_type, dir, range) ==
    CASE coord.kind = Square ->
            [kind |-> Square, coord |-> coord.c,
             opt_offset |-> square_offset_in_direction(dir_type, dir),
             index |-> 0, range |-> range]
      [] coord.kind = Hex ->
            [kind |-> Hex, coord |-> coord.c,
             opt_offset |-> hex_offset_in_direction(dir_type, dir),
             index |-> 0, range |-> range]
      [] coord.kind = Triangle ->
            [kind |-> Triangle, current |-> coord.c, dir_type |-> dir_type,
             dir |-> dir, index |-> 0, range |-> range]

ModuleCoordIter_next(it) ==
    IF ~it.opt_offset.some \/ complete(it.range, it.index)
    THEN {[iter |-> it, item |-> None]}
    ELSE {[iter |-> [it EXCEPT !.index = it.index + 1,
                               !.coord = ivec2_add(it.coord, it.opt_offset.v)],
           item |-> Some(dyn(it.kind, it.coord))]}

\* triangle::DirectionIter::next
DirectionIter_next(it) ==
    IF ~triangle_allowed_direction(it.current, it.dir_type, it.dir)
          \/ complete(it.range, it.index)
    THEN {[iter |-> it, item |-> None]}
    ELSE {[iter |-> [it EXCEPT
                        !.index = it.index + 1,
                        !.current = triangle_move_in_direction(
                                        it.current, it.dir_type, it.dir).v,
                        !.dir_type = not_dir_type(it.dir_type)],
           item |-> Some(dyn(Triangle, it.current))]}

(***************************************************************************)
(* SpecDirection: a caller takes the direction iterator of a coordinate    *)
(* and pulls it until it returns None; from the unbounded range it takes   *)
(* MaxRange + 2 coordinates (grid_tests.rs: grid_direction_iterator).      *)
(***************************************************************************)
Ranges ==
    [kind : {"to", "to_inclusive"}, end : 0..MaxRange] \cup {[kind |-> "full"]}

InitDirection ==
    /\ pc = "path"
    /\ input \in [coord : Coords, dir_type : DirectionTypes, dir : VALUES,
                  range : Ranges]
    /\ iter = direction_iterator(input.coord, input.dir_type, input.dir, input.range)
    /\ output = [op |-> "direction", yielded |-> <<>>, done |-> FALSE]

ModuleCoordIterNext ==
    /\ iter.kind \in {Square, Hex}
    /\ Len(output.yielded) < MaxRange + 2
    /\ Pull(ModuleCoordIter_next(iter))

DirectionIterNext ==
    /\ iter.kind = Triangle
    /\ Len(output.yielded) < MaxRange + 2
    /\ Pull(DirectionIter_next(iter))

NextDirection == ModuleCoordIterNext \/ DirectionIterNext

SpecDirection == InitDirection /\ [][NextDirection]_vars

\* C10: the direction iterator of a direction that is not allowed yields
\* nothing; that of an allowed direction yields n coordinates over ..n and
\* n + 1 over ..=n, the first is the coordinate itself, no coordinate comes
\* twice, and each is farther from the start than the one before it.
C10_DirectionIterator ==
    LET ys == output.yielded
        allowed == allowed_direction(input.coord, input.dir_type, input.dir)
    IN  /\ ~allowed => ys = <<>>
        /\ (allowed /\ output.done /\ input.range.kind = "to")
              => Len(ys) = input.range.end
        /\ (allowed /\ output.done /\ input.range.kind = "to_inclusive")
              => Len(ys) = input.range.end + 1
        /\ Len(ys) >= 1 => ys[1] = input.coord
        /\ \A i, j \in 1..Len(ys) : i # j => ys[i] # ys[j]
        /\ \A i \in 1..(Len(ys) - 1) :
              distance(input.coord, ys[i]) < distance(input.coord, ys[i + 1])

C10_Witness ==
    /\ output.done
    /\ input.coord.kind = Triangle
    /\ input.dir_type = Vertex
    /\ input.range = [kind |-> "to_inclusive", end |-> MaxRange]
    /\ Len(output.yielded) = MaxRange + 1

(***************************************************************************)
(* Movement along the named axes of a kind.                                *)
(***************************************************************************)
\* The match of square offset_on_axis and axis_iterator.
square_axis_direction(axis, positive) ==
    CASE axis = "Y" /\ positive -> North
      [] axis = "Y" /\ ~positive -> South
      [] axis = "X" /\ positive -> East
      [] axis = "X" /\ ~positive -> West

\* The match of hex offset_on_axis and axis_iterator.
hex_axis_direction(axis, positive) ==
    CASE axis = "Q" /\ positive -> North
      [] axis = "Q" /\ ~positive -> South
      [] axis = "R" /\ positive -> NorthEast
      [] axis = "R" /\ ~positive -> SouthWest
      [] axis = "S" /\ positive -> SouthEast
      [] axis = "S" /\ ~positive -> NorthWest

\* Variant: on the C axis an Up triangle steps the same way for both signs.
triangle_move_on_axis_one_way(c, axis, positive) ==
    LET offset ==
            CASE c.point = Up /\ axis = "A" /\ positive -> ivec2(0, 0)
              [] c.point = Up /\ axis = "A" /\ ~positive -> ivec2(0, 0 - 1)
              [] c.point = Up /\ axis = "B" /\ positive -> ivec2(0, 0)
              [] c.point = Up /\ axis = "B" /\ ~positive -> ivec2(0 - 1, 0)
              [] c.point = Up /\ axis = "C" /\ positive -> ivec2(0 - 1, 0)
              [] c.point = Up /\ axis = "C" /\ ~positive -> ivec2(0 - 1, 0)
              [] c.point = Down /\ axis = "A" /\ positive -> ivec2(0, 1)
              [] c.point = Down /\ axis = "A" /\ ~positive -> ivec2(0, 0)
              [] c.point = Down /\ axis = "B" /\ positive -> ivec2(1, 0)
              [] c.point = Down /\ axis = "B" /\ ~positive -> ivec2(0, 0)
              [] c.point = Down /\ axis = "C" /\ positive -> ivec2(0, 1)
              [] c.point = Down /\ axis = "C" /\ ~positive -> ivec2(1, 0)
    IN  tri(c.x + offset.x, c.y + offset.y, point_opposite(c.point))

triangle_move_on_axis(c, axis, positive) ==
    LET offset ==
            CASE c.point = Up /\ axis = "A" /\ positive -> ivec2(0, 0)
              [] c.point = Up /\ axis = "A" /\ ~positive -> ivec2(0, 0 - 1)
              [] c.point = Up /\ axis = "B" /\ positive -> ivec2(0, 0)
              [] c.point = Up /\ axis = "B" /\ ~positive -> ivec2(0 - 1, 0)
              [] c.point = Up /\ axis = "C" /\ positive -> ivec2(0 - 1, 0)
              [] c.point = Up /\ axis = "C" /\ ~positive -> ivec2(0, 0 - 1)
              [] c.point = Down /\ axis = "A" /\ positive -> ivec2(0, 1)
              [] c.point = Down /\ axis = "A" /\ ~positive -> ivec2(0, 0)
              [] c.point = Down /\ axis = "B" /\ positive -> ivec2(1, 0)
              [] c.point = Down /\ axis = "B" /\ ~positive -> ivec2(0, 0)
              [] c.point = Down /\ axis = "C" /\ positive -> ivec2(0, 1)
              [] c.point = Down /\ axis = "C" /\ ~positive -> ivec2(1, 0)
    IN  tri(c.x + offset.x, c.y + offset.y, point_opposite(c.point))

\* The kind an axis belongs to (dynamic::Axes::kind).
axis_kind(axis) ==
    CASE axis \in {"X", "Y"} -> Square
      [] axis \in {"Q", "R", "S"} -> Hex
      [] axis \in {"A", "B", "C"} -> Triangle

\* Variant: an axis of another kind leaves the coordinate where it is.
move_on_axis_lenient(coord, axis, positive) ==
    CASE coord.kind = Square /\ axis_kind(axis) = Square ->
            dyn(Square, ivec2_add(coord.c,
                    square_offset_in_direction(
                        Face, square_axis_direction(axis, positive)).v))
      [] coord.kind = Hex /\ axis_kind(axis) = Hex ->
            dyn(Hex, ivec2_add(coord.c,
                    hex_offset_in_direction(Face, hex_axis_direction(axis, positive)).v))
      [] coord.kind = Triangle /\ axis_kind(axis) = Triangle ->
            dyn(Triangle, triangle_move_on_axis(coord.c, axis, positive))
      [] OTHER -> coord

\* dynamic::Coord::move_on_axis; Square and Hex add their offset_on_axis,
\* the offset_in_direction of the Face direction of the axis.
move_on_axis(coord, axis, positive) ==
    CASE coord.kind = Square /\ axis_kind(axis) = Square ->
            dyn(Square, ivec2_add(coord.c,
                    square_offset_in_direction(
                        Face, square_axis_direction(axis, positive)).v))
      [] coord.kind = Hex /\ axis_kind(axis) = Hex ->
            dyn(Hex, ivec2_add(coord.c,
                    hex_offset_in_direction(Face, hex_axis_direction(axis, positive)).v))
      [] coord.kind = Triangle /\ axis_kind(axis) = Triangle ->
            dyn(Triangle, triangle_move_on_axis(coord.c, axis, positive))
      [] OTHER -> Panic

\* dynamic::Coord::axis_iterator; Square and Hex hand out the direction
\* iterator of the Face direction of the axis, Triangle a TriangleAxisIter.
axis_iterator(coord, axis, positive, range) ==
    CASE coord.kind = Square /\ axis_kind(axis) = Square ->
            direction_iterator(coord, Face, square_axis_direction(axis, positive), range)
      [] coord.kind = Hex /\ axis_kind(axis) = Hex ->
            direction_iterator(coord, Face, hex_axis_direction(axis, positive), range)
      [] coord.kind = Triangle /\ axis_kind(axis) = Triangle ->
            [kind |-> Triangle, current |-> coord.c, axis |-> axis,
             positive |-> positive, index |-> 0, range |-> range]
      [] OTHER -> Panic

TriangleAxisIter_next(it) ==
    IF complete(it.range, it.index) THEN {[iter |-> it, item |-> None]}
    ELSE {[iter |-> [it EXCEPT
                        !.current = triangle_move_on_axis(it.current, it.axis, it.positive),
                        !.index = it.index + 1],
           item |-> Some(dyn(Triangle, it.current))]}

(***************************************************************************)
(* SpecAxis: a caller takes the axis iterator of a coordinate, moves the   *)
(* coordinate on the axis and back, and pulls the iterator to its end      *)
(* (grid_tests.rs: grid_axis_iterator).                                    *)
(***************************************************************************)
InitAxis ==
    /\ pc = "start"
    /\ \E c \in Coords, i \in 1..3 :
          /\ i \in DOMAIN axes(c.kind)
          /\ input \in [coord : {c}, axis : {axes(c.kind)[i]}, positive : BOOLEAN,
                        range : Ranges]
    /\ iter = axis_iterator(input.coord, input.axis, input.positive, input.range)
    /\ output = [op |-> "axis", yielded |-> <<>>, done |-> FALSE,
                 moved |-> None, back |-> None]

MoveOnAxis ==
    /\ pc = "start"
    /\ pc' = "path"
    /\ LET moved == move_on_axis(input.coord, input.axis, input.positive)
       IN  output' = [output EXCEPT
                        !.moved = moved,
                        !.back = move_on_axis(moved, input.axis, ~input.positive)]
    /\ UNCHANGED <<input, iter>>

TriangleAxisIterNext ==
    /\ iter.kind = Triangle
    /\ Len(output.yielded) < MaxRange + 2
    /\ Pull(TriangleAxisIter_next(iter))

NextAxis == MoveOnAxis \/ ModuleCoordIterNext \/ TriangleAxisIterNext

SpecAxis == InitAxis /\ [][NextAxis]_vars

\* C11: moving on an axis leads to a face neighbour and moving back with
\* the other sign returns; the axis iterator yields n coordinates over ..n
\* and n + 1 over ..=n, starts at the coordinate, yields none twice, each
\* a face neighbour of the one before it and farther from the start.
C11_AxisIterator ==
    pc # "start" =>
        LET ys == output.yielded
        IN  /\ Cardinality(FaceDirectionsBetween(input.coord, output.moved)) = 1
            /\ output.back = input.coord
            /\ (output.done /\ input.range.kind = "to") => Len(ys) = input.range.end
            /\ (output.done /\ input.range.kind = "to_inclusive")
                  => Len(ys) = input.range.end + 1
            /\ Len(ys) >= 1 => ys[1] = input.coord
            /\ \A i, j \in 1..Len(ys) : i # j => ys[i] # ys[j]
            /\ \A i \in 1..(Len(ys) - 1) :
                  /\ Cardinality(FaceDirectionsBetween(ys[i], ys[i + 1])) = 1
                  /\ distance(input.coord, ys[i]) < distance(input.coord, ys[i + 1])

C11_Witness ==
    /\ pc = "done"
    /\ input.coord.kind = Triangle
    /\ input.axis = "C"
    /\ ~input.positive
    /\ input.range = [kind |-> "to_inclusive", end |-> MaxRange]
    /\ Len(output.yielded) = MaxRange + 1
    /\ output.back = input.coord

(***************************************************************************)
(* Angles.  An angle is an integer number of units of pi/24 (7.5 degrees), *)
(* so that every angle the code names (multiples of pi/6 and pi/4) and     *)
(* every boundary it compares against is a whole number of units, and      *)
(* there are angles strictly between any two of them.                      *)
(***************************************************************************)
PI == 24

Angles == (0 - 2 * PI)..(4 * PI)

\* (self as u8 as f32) * (PI / 4.0)
Direction_angle(dir) == dir * (PI \div 4)

clockwise(dir) == (dir + 7) % 8

\* Variant: the turn stays where it is.
counter_clockwise_stuck(dir) == dir

counter_clockwise(dir) == (dir + 1) % 8

\* octant = norm_angle / (PI / 4.0); octant < k is 4 * norm_angle < k * PI.
RECURSIVE square_angle_to_direction(_, _)
square_angle_to_direction(dir_type, angle) ==
    IF dir_type = Vertex
    THEN counter_clockwise(square_angle_to_direction(Face, angle - (PI \div 4)))
    ELSE LET norm_angle == rem_euclid(angle, 2 * PI)
         IN  IF 4 * norm_angle >= 7 * PI \/ 4 * norm_angle < 1 * PI THEN East
             ELSE IF 4 * norm_angle < 3 * PI THEN North
             ELSE IF 4 * norm_angle < 5 * PI THEN West
             ELSE South

square_direction_angle(dir_type, dir) ==
    IF square_allowed_direction(dir_type, dir) THEN Some(Direction_angle(dir))
    ELSE None

\* hextant = norm_angle / (PI / 3.0), dodecant = norm_angle / (PI / 6.0).
hex_angle_to_direction(dir_type, angle) ==
    LET norm_angle == rem_euclid(angle, 2 * PI)
    IN  IF dir_type = Face
        THEN IF 3 * norm_angle < 1 * PI THEN NorthEast
             ELSE IF 3 * norm_angle < 2 * PI THEN North
             ELSE IF 3 * norm_angle < 3 * PI THEN NorthWest
             ELSE IF 3 * norm_angle < 4 * PI THEN SouthWest
             ELSE IF 3 * norm_angle < 5 * PI THEN South
             ELSE SouthEast
        ELSE IF 6 * norm_angle > 11 * PI \/ 6 * norm_angle < 1 * PI THEN East
             ELSE IF 6 * norm_angle < 3 * PI THEN NorthEast
             ELSE IF 6 * norm_angle < 5 * PI THEN NorthWest
             ELSE IF 6 * norm_angle < 7 * PI THEN West
             ELSE IF 6 * norm_angle < 9 * PI THEN SouthWest
             ELSE SouthEast

hex_direction_angle(dir_type, dir) ==
    IF dir_type = Face
    THEN CASE dir = NorthEast -> Some((1 * PI) \div 6)
           [] dir = NorthWest -> Some((5 * PI) \div 6)
           [] dir = SouthWest -> Some((7 * PI) \div 6)
           [] dir = SouthEast -> Some((11 * PI) \div 6)
           [] dir \in {North, South} -> Some(Direction_angle(dir))
           [] OTHER -> None
    ELSE CASE dir = NorthEast -> Some(PI \div 3)
           [] dir = NorthWest -> Some((2 * PI) \div 3)
           [] dir = SouthWest -> Some((4 * PI) \div 3)
           [] dir = SouthEast -> Some((5 * PI) \div 3)
           [] dir \in {East, West} -> Some(Direction_angle(dir))
           [] dir \in {North, South} -> None

triangle_angle_to_direction(c, dir_type, angle) ==
    LET norm_angle == rem_euclid(angle, 2 * PI)
        point == IF dir_type = Vertex THEN point_opposite(c.point) ELSE c.point
    IN  IF point = Up
        THEN IF 6 * norm_angle >= 11 * PI \/ 6 * norm_angle < 3 * PI THEN NorthEast
             ELSE IF 6 * norm_angle < 7 * PI THEN NorthWest
             ELSE South
        ELSE IF 6 * norm_angle >= 9 * PI \/ 6 * norm_angle < 1 * PI THEN SouthEast
             ELSE IF 6 * norm_angle < 4 * PI THEN North
             ELSE SouthWest

triangle_direction_angle(c, dir_type, dir) ==
    LET point == IF dir_type = Vertex THEN point_opposite(c.point) ELSE c.point
    IN  IF point = Up
        THEN CASE dir = NorthEast -> Some(PI \div 6)
               [] dir = NorthWest -> Some((5 * PI) \div 6)
               [] dir = South -> Some(Direction_angle(dir))
               [] OTHER -> None
        ELSE CASE dir = SouthWest -> Some((7 * PI) \div 6)
               [] dir = SouthEast -> Some((11 * PI) \div 6)
               [] dir = North -> Some(Direction_angle(dir))
               [] OTHER -> None

angle_to_direction(coord, dir_type, angle) ==
    CASE coord.kind = Square -> square_angle_to_direction(dir_type, angle)
      [] coord.kind = Hex -> hex_angle_to_direction(dir_type, angle)
      [] coord.kind = Triangle -> triangle_angle_to_direction(coord.c, dir_type, angle)

direction_angle(coord, dir_type, dir) ==
    CASE coord.kind = Square -> square_direction_angle(dir_type, dir)
      [] coord.kind = Hex -> hex_direction_angle(dir_type, dir)
      [] coord.kind = Triangle -> triangle_direction_angle(coord.c, dir_type, dir)

(***************************************************************************)
(* SpecAngle: a caller holds a coordinate and a direction type and asks    *)
(* for the direction of an angle or for the angle of a direction           *)
(* (grid_tests.rs: grid_angle_to_direction).                               *)
(***************************************************************************)
InitAngle ==
    /\ pc = "angle"
    /\ input \in [coord : Coords, dir_type : DirectionTypes]
    /\ iter = Idle
    /\ output = [op |-> "none"]

AngleToDirection ==
    /\ pc = "angle"
    /\ \E angle \in Angles :
          output' = [op |-> "angle_to_direction", angle |-> angle,
                     direction |-> angle_to_direction(input.coord, input.dir_type, angle)]
    /\ UNCHANGED <<pc, input, iter>>

\* direction_angle(dir), the direction of that angle, and the direction of
\* dir.angle().
DirectionAngle ==
    /\ pc = "angle"
    /\ \E dir \in VALUES :
          LET angle == direction_angle(input.coord, input.dir_type, dir)
          IN  output' = [op |-> "direction_angle", dir |-> dir, angle |-> angle,
                         snapped |->
                            IF angle.some
                            THEN Some(angle_to_direction(input.coord, input.dir_type,
                                                         angle.v))
                            ELSE None,
                         compass |-> angle_to_direction(input.coord, input.dir_type,
                                                        Direction_angle(dir))]
    /\ UNCHANGED <<pc, input, iter>>

NextAngle == AngleToDirection \/ DirectionAngle

SpecAngle == InitAngle /\ [][NextAngle]_vars

\* C12: an allowed direction has an angle, the direction of that angle is
\* the direction again, and so is the direction of its compass angle; a
\* direction that is not allowed has no angle.
C12_AngleDirectionInverse ==
    output.op = "direction_angle" =>
        IF allowed_direction(input.coord, input.dir_type, output.dir)
        THEN /\ output.angle.some
             /\ output.snapped = Some(output.dir)
             /\ output.compass = output.dir
        ELSE output.angle = None

C12_Witness ==
    /\ output.op = "direction_angle"
    /\ input.coord.kind = Square
    /\ input.dir_type = Vertex
    /\ output.dir = SouthEast
    /\ output.snapped = Some(SouthEast)

\* Circular distance between two angles.
circular_distance(a, b) ==
    LET d == rem_euclid(a - b, 2 * PI)
    IN  IF d <= 2 * PI - d THEN d ELSE 2 * PI - d

\* The allowed directions whose angle is at the least circular distance.
nearest_directions(coord, dir_type, angle) ==
    LET allowed == allowed_directions(coord, dir_type)
        dist(d) == circular_distance(direction_angle(coord, dir_type, d).v, angle)
    IN  {d \in allowed : \A e \in allowed : dist(d) <= dist(e)}

\* C13: the direction of an angle is the allowed direction whose angle is
\* nearest to it on the circle, whenever only one is nearest.
C13_NearestDirection ==
    output.op = "angle_to_direction" =>
        LET nearest == nearest_directions(input.coord, input.dir_type, output.angle)
        IN  Cardinality(nearest) = 1 => output.direction \in nearest

\* A Down triangle asked for the Face direction of 135 degrees, which is 45
\* degrees from North and 75 from SouthWest.
C13_Witness ==
    /\ output.op = "angle_to_direction"
    /\ input.coord = dyn(Triangle, tri(0, 0, Down))
    /\ input.dir_type = Face
    /\ output.angle = (3 * PI) \div 4
    /\ output.direction = SouthWest

\* The nearest direction is returned everywhere but in the band the Triangle
\* code snaps to the farther direction:
\* pi * 2/3 <= angle < pi * 5/6 for the point whose directions are
\* North, SouthWest and SouthEast.
NearestDirectionOutsideBand ==
    output.op = "angle_to_direction" =>
        LET nearest == nearest_directions(input.coord, input.dir_type, output.angle)
            norm_angle == rem_euclid(output.angle, 2 * PI)
            in_band == /\ input.coord.kind = Triangle
                       /\ North \in allowed_directions(input.coord, input.dir_type)
                       /\ 6 * norm_angle >= 4 * PI
                       /\ 6 * norm_angle < 5 * PI
        IN  IF in_band THEN output.direction = SouthWest /\ nearest = {North}
            ELSE Cardinality(nearest) = 1 => output.direction \in nearest

(***************************************************************************)
(* Rings and ranges.  A shape is the set of its coordinates; ring(radius)  *)
(* either returns a shape at once or calls utils::ring, whose loops are    *)
(* the steps of SpecRing below.                                            *)
(***************************************************************************)
MaxRadius == 3

\* dynamic::Coord::origin
origin(kind) ==
    IF kind = Triangle THEN dyn(Triangle, tri(0, 0, Up)) ELSE dyn(kind, ivec2(0, 0))

\* The arguments ring hands to utils::ring.
ring_call(start, start_axis, flip_axis, rotation_step) ==
    [some |-> FALSE, start |-> start, start_axis |-> start_axis,
     flip_axis |-> flip_axis, rotation_step |-> rotation_step]

\* Variant: the corners are found by turning the other way.
square_ring_turned(radius) ==
    IF radius = 0 THEN Some({origin(Square)})
    ELSE ring_call(dyn(Square, ivec2(radius, radius)), "Y", "Y", 1)

square_ring(radius) ==
    IF radius = 0 THEN Some({origin(Square)})
    ELSE ring_call(dyn(Square, ivec2(radius, radius)), "Y", "Y", 0 - 1)

hex_ring(radius) ==
    IF radius = 0 THEN Some({origin(Hex)})
    ELSE ring_call(dyn(Hex, ivec2(radius, 0)), "Q", "Q", 0 - 1)

\* Variant: radius 1 is walked like the larger radii.
triangle_ring_walk_one(radius) ==
    IF radius = 0 THEN Some({origin(Triangle)})
    ELSE ring_call(dyn(Triangle, tri(radius - 1, radius - 1, Down)), "B", "A", 1)

triangle_ring(radius) ==
    IF radius = 0 THEN Some({origin(Triangle)})
    ELSE IF radius = 1
    THEN Some({dyn(Triangle, tri(0, 0, Down)), dyn(Triangle, tri(0, 0 - 1, Down)),
               dyn(Triangle, tri(0 - 1, 0, Down))})
    ELSE ring_call(dyn(Triangle, tri(radius - 1, radius - 1, Down)), "B", "A", 1)

\* dynamic::Coord::ring up to the call of utils::ring.
ring(kind, radius) ==
    CASE kind = Square -> square_ring(radius)
      [] kind = Hex -> hex_ring(radius)
      [] kind = Triangle -> triangle_ring(radius)

\* Variant: the coordinates within radius in Manhattan distance.
square_range_diamond(radius) ==
    {c \in {dyn(Square, ivec2(x, y)) : x \in (0 - radius)..radius,
                                       y \in (0 - radius)..radius} :
        abs(c.c.x) + abs(c.c.y) <= radius}

square_range(radius) ==
    {dyn(Square, ivec2(x, y)) : x \in (0 - radius)..radius, y \in (0 - radius)..radius}

\* IVec3::new(q, s, r) with element sum 0, through from_cubical.
hex_range(radius) ==
    {dyn(Hex, hex_from_cubical(ivec3(q, 0 - q - r, r))) :
        <<q, r>> \in {qr \in ((0 - radius)..radius) \X ((0 - radius)..radius) :
                        0 - qr[1] - qr[2] \in (0 - radius)..radius}}

\* The rings of radius 0..=radius, which the caller has computed.
triangle_range(radius, rings) == UNION {rings[r + 1] : r \in 0..radius}

\* dynamic::Coord::range
range(kind, radius, rings) ==
    CASE kind = Square -> square_range(radius)
      [] kind = Hex -> hex_range(radius)
      [] kind = Triangle -> triangle_range(radius, rings)

\* The top of the outer loop of utils::ring: the next corner, the
\* coordinate the side starts from and the axis taken from the cycle.
ring_side(it) ==
    [it EXCEPT !.next_corner_coord = rotate(it.current_coord, it.rotation_step),
               !.next_coord = it.current_coord,
               !.axis = it.axes[it.pos],
               !.pos = (it.pos % Len(it.axes)) + 1]

\* utils::ring up to the first pass of its inner loop.
utils_ring(call, kind_axes) ==
    ring_side([coords |-> {}, start |-> call.start, current_coord |-> call.start,
               next_coord |-> call.start, next_corner_coord |-> call.start,
               axes |-> kind_axes, axis |-> call.start_axis,
               pos |-> CHOOSE i \in 1..Len(kind_axes) : kind_axes[i] = call.start_axis,
               axis_sign |-> FALSE, flip_axis |-> call.flip_axis,
               rotation_step |-> call.rotation_step])

(***************************************************************************)
(* SpecRing: a caller asks for the rings of radius 0, 1, .. MaxRadius of a *)
(* kind in turn (grid_tests.rs: grid_shapes); output.rings holds the rings *)
(* returned so far.                                                        *)
(***************************************************************************)
InitRing ==
    /\ pc = "call"
    /\ input \in [kind : Kinds]
    /\ iter = Idle
    /\ output = [op |-> "ring", rings |-> <<>>]

RingCall ==
    /\ pc = "call"
    /\ Len(output.rings) <= MaxRadius
    /\ LET result == ring(input.kind, Len(output.rings))
       IN  IF result.some
           THEN /\ output' = [output EXCEPT !.rings = Append(@, result.v)]
                /\ UNCHANGED <<pc, iter>>
           ELSE /\ pc' = "loop"
                /\ iter' = utils_ring(result, axes(input.kind))
                /\ UNCHANGED output
    /\ UNCHANGED input

\* One pass of the inner loop of utils::ring and, when it reaches the next
\* corner, the rest of the outer loop.
RingStep ==
    /\ pc = "loop"
    /\ Cardinality(iter.coords) < 18 * (MaxRadius + 1)
    /\ LET coords == iter.coords \cup {iter.next_coord}
           coord == move_on_axis(iter.next_coord, iter.axis, iter.axis_sign)
       IN  IF coord # iter.next_corner_coord
           THEN /\ iter' = [iter EXCEPT !.coords = coords, !.next_coord = coord]
                /\ UNCHANGED <<pc, output>>
           ELSE IF iter.next_corner_coord = iter.start
           THEN /\ pc' = "call"
                /\ iter' = Idle
                /\ output' = [output EXCEPT !.rings = Append(@, coords)]
           ELSE /\ iter' = ring_side([iter EXCEPT
                            !.coords = coords,
                            !.current_coord = iter.next_corner_coord,
                            !.axis_sign = IF iter.axes[iter.pos] = iter.flip_axis
                                          THEN ~iter.axis_sign ELSE iter.axis_sign])
                /\ UNCHANGED <<pc, output>>
    /\ UNCHANGED input

NextRing == RingCall \/ RingStep

SpecRing == InitRing /\ [][NextRing]_vars

\* C14: the ring of radius 0 is the origin alone, and the ring of radius
\* r + 1 is not empty and shares no coordinate with the range of radius r.
C14_RingsDisjointFromRange ==
    /\ Len(output.rings) >= 1 => output.rings[1] = {origin(input.kind)}
    /\ \A r \in 0..MaxRadius :
          r + 2 <= Len(output.rings) =>
              /\ output.rings[r + 2] # {}
              /\ output.rings[r + 2] \cap range(input.kind, r, output.rings) = {}

C14_Witness ==
    /\ pc = "call"
    /\ input.kind = Triangle
    /\ Len(output.rings) = MaxRadius + 1
    /\ Cardinality(output.rings[MaxRadius + 1]) > 3

\* C15: for r >= 1 the Hex ring is the 6r coordinates at distance r from
\* the origin, the Square ring the 8r coordinates with max(|x|, |y|) = r,
\* and every ring is the range of its radius less the range of radius r - 1.
C15_RingIsRangeDifference ==
    \A r \in 1..MaxRadius :
        r + 1 <= Len(output.rings) =>
            LET ring_r == output.rings[r + 1]
                box == {ivec2(x, y) : x, y \in (0 - r - 1)..(r + 1)}
            IN  /\ input.kind = Hex =>
                      /\ ring_r = {dyn(Hex, c) : c \in {b \in box :
                                      hex_distance(ivec2(0, 0), b) = r}}
                      /\ Cardinality(ring_r) = 6 * r
                /\ input.kind = Square =>
                      /\ ring_r = {dyn(Square, c) : c \in {b \in box :
                                      (IF abs(b.x) >= abs(b.y) THEN abs(b.x)
                                       ELSE abs(b.y)) = r}}
                      /\ Cardinality(ring_r) = 8 * r
                /\ ring_r = range(input.kind, r, output.rings)
                                \ range(input.kind, r - 1, output.rings)

C15_Witness ==
    /\ pc = "call"
    /\ input.kind = Hex
    /\ Len(output.rings) = MaxRadius + 1
    /\ Cardinality(output.rings[MaxRadius + 1]) = 6 * MaxRadius

(***************************************************************************)
(* HashShape.  The HashSet inside a shape is the sequence of its distinct  *)
(* elements in iteration order (here the order of first insertion); the   *)
(* operations are those of std::collections::HashSet that shape.rs calls.  *)
(***************************************************************************)
MaxInsert == 3

HashSet_contains(set, c) == \E i \in 1..Len(set) : set[i] = c

\* Iterator::collect into a HashSet: insert one element after the other.
RECURSIVE HashSet_collect(_)
HashSet_collect(items) ==
    IF items = <<>> THEN <<>>
    ELSE LET set == HashSet_collect(SubSeq(items, 1, Len(items) - 1))
             c == items[Len(items)]
         IN  IF HashSet_contains(set, c) THEN set ELSE Append(set, c)

\* HashSet::difference: self.iter().filter(|x| !other.contains(x))
HashSet_difference(set, other) ==
    SelectSeq(set, LAMBDA c : ~HashSet_contains(other, c))

\* HashSet::is_subset
HashSet_is_subset(set, other) ==
    IF Len(set) <= Len(other)
    THEN \A i \in 1..Len(set) : HashSet_contains(other, set[i])
    ELSE FALSE

\* From<&[C]>, From<[C; N]> and FromIterator
HashShape_from_iter(items) == [set |-> HashSet_collect(items)]

\* derive(PartialEq) on the HashSet field
HashShape_eq(a, b) ==
    IF Len(a.set) # Len(b.set) THEN FALSE
    ELSE \A i \in 1..Len(a.set) : HashSet_contains(b.set, a.set[i])

\* Variant: the difference taken the other way round.
HashShape_sub_reversed(a, rhs) ==
    [set |-> HashSet_collect(HashSet_difference(rhs.set, a.set))]

HashShape_sub(a, rhs) ==
    [set |-> HashSet_collect(HashSet_difference(a.set, rhs.set))]

\* HashSet::union chains the larger set with what the smaller one adds.
HashShape_union(a, other) ==
    [set |-> HashSet_collect(
                IF Len(a.set) >= Len(other.set)
                THEN a.set \o HashSet_difference(other.set, a.set)
                ELSE other.set \o HashSet_difference(a.set, other.set))]

is_subshape(a, other) == HashSet_is_subset(a.set, other.set)

is_supershape(a, other) == HashSet_is_subset(other.set, a.set)

is_disjoint(a, other) ==
    IF Len(a.set) <= Len(other.set)
    THEN \A i \in 1..Len(a.set) : ~HashSet_contains(other.set, a.set[i])
    ELSE \A i \in 1..Len(other.set) : ~HashSet_contains(a.set, other.set[i])

\* The coordinates a shape iterates over.
Elements(shape) == {shape.set[i] : i \in 1..Len(shape.set)}

\* Coordinates to insert: the Triangle ring of radius 1, in any order and
\* with repetitions.
Insertions ==
    UNION {[1..n -> triangle_ring(1).v] : n \in 0..MaxInsert}

(***************************************************************************)
(* SpecShape: a caller builds two shapes from sequences of coordinates and *)
(* applies the operations of Shape to them by reference.                   *)
(***************************************************************************)
InitShape ==
    /\ pc = "items"
    /\ input \in [a : Insertions, b : Insertions]
    /\ iter = Idle
    /\ output = [op |-> "none"]

FromIter ==
    /\ pc = "items"
    /\ pc' = "shapes"
    /\ iter' = [a |-> HashShape_from_iter(input.a), b |-> HashShape_from_iter(input.b)]
    /\ UNCHANGED <<input, output>>

\* a.union(&b) and &a - &b borrow their operands.
UnionAndSub ==
    /\ pc = "shapes"
    /\ output' = [op |-> "union", union |-> HashShape_union(iter.a, iter.b),
                  sub |-> HashShape_sub(iter.a, iter.b)]
    /\ UNCHANGED <<pc, input, iter>>

Relations ==
    /\ pc = "shapes"
    /\ output' = [op |-> "relations",
                  eq |-> HashShape_eq(iter.a, iter.b),
                  is_subshape |-> is_subshape(iter.a, iter.b),
                  is_supershape |-> is_supershape(iter.b, iter.a),
                  is_disjoint |-> is_disjoint(iter.a, iter.b),
                  is_disjoint_swapped |-> is_disjoint(iter.b, iter.a)]
    /\ UNCHANGED <<pc, input, iter>>

NextShape == FromIter \/ UnionAndSub \/ Relations

SpecShape == InitShape /\ [][NextShape]_vars

\* C16: a shape holds the coordinates inserted, each once; two shapes are
\* equal exactly when they hold the same coordinates; union and difference
\* are those of sets and leave their operands as they were; a is a subshape
\* of b exactly when b is a supershape of a; disjointness does not depend
\* on the order of the operands.
C16_ShapeIsSet ==
    pc = "shapes" =>
        LET items(s) == {s[i] : i \in 1..Len(s)}
            A == items(input.a)
            B == items(input.b)
        IN  /\ Elements(iter.a) = A /\ Cardinality(A) = Len(iter.a.set)
            /\ Elements(iter.b) = B /\ Cardinality(B) = Len(iter.b.set)
            /\ output.op = "union" =>
                  /\ Elements(output.union) = A \cup B
                  /\ Elements(output.sub) = A \ B
            /\ output.op = "relations" =>
                  /\ output.eq <=> A = B
                  /\ output.is_subshape <=> A \subseteq B
                  /\ output.is_subshape <=> output.is_supershape
                  /\ output.is_disjoint <=> A \cap B = {}
                  /\ output.is_disjoint <=> output.is_disjoint_swapped

\* Two shapes built from the same coordinates in different orders and
\* with a repetition compare equal.
C16_Witness ==
    /\ output.op = "relations"
    /\ Len(input.a) = 3
    /\ Len(input.b) = 2
    /\ input.a[1] = input.a[3]
    /\ input.a[1] = input.b[2]
    /\ input.a[2] = input.b[1]
    /\ input.a[1] # input.a[2]
    /\ output.eq

(***************************************************************************)
(* SpecDynamic: a caller holds a dynamic coordinate and calls the          *)
(* one operation of the wrapper that takes a second coordinate or an axis, *)
(* of its own kind or of another.                                          *)
(***************************************************************************)
AllAxes == {"X", "Y", "Q", "R", "S", "A", "B", "C"}

InitDynamic ==
    /\ pc = "dynamic"
    /\ input \in [coord : Coords]
    /\ iter = Idle
    /\ output = [op |-> "none"]

DynamicDistance ==
    /\ pc = "dynamic"
    /\ \E other \in Coords :
          output' = [op |-> "distance", other |-> other,
                     result |-> distance(input.coord, other)]
    /\ pc' = "done"
    /\ UNCHANGED <<input, iter>>

DynamicPathIterator ==
    /\ pc = "dynamic"
    /\ \E other \in Coords :
          output' = [op |-> "path_iterator", other |-> other,
                     result |-> path_iterator(input.coord, other)]
    /\ pc' = "done"
    /\ UNCHANGED <<input, iter>>

DynamicMoveOnAxis ==
    /\ pc = "dynamic"
    /\ \E axis \in AllAxes, positive \in BOOLEAN :
          output' = [op |-> "move_on_axis", axis |-> axis, positive |-> positive,
                     result |-> move_on_axis(input.coord, axis, positive)]
    /\ pc' = "done"
    /\ UNCHANGED <<input, iter>>

DynamicAxisIterator ==
    /\ pc = "dynamic"
    /\ \E axis \in AllAxes, positive \in BOOLEAN, r \in Ranges :
          output' = [op |-> "axis_iterator", axis |-> axis, positive |-> positive,
                     range |-> r,
                     result |-> axis_iterator(input.coord, axis, positive, r)]
    /\ pc' = "done"
    /\ UNCHANGED <<input, iter>>

DynamicReflect ==
    /\ pc = "dynamic"
    /\ \E axis \in AllAxes :
          output' = [op |-> "reflect", axis |-> axis,
                     result |-> reflect(input.coord, axis)]
    /\ pc' = "done"
    /\ UNCHANGED <<input, iter>>

NextDynamic ==
    \/ DynamicDistance
    \/ DynamicPathIterator
    \/ DynamicMoveOnAxis
    \/ DynamicAxisIterator
    \/ DynamicReflect

SpecDynamic == InitDynamic /\ [][NextDynamic]_vars

\* C17: distance, path_iterator, move_on_axis, axis_iterator and reflect of
\* the wrapper panic when the other coordinate or the axis is of another
\* kind, and otherwise give the result of the kind under the same tag.
C17_DynamicDispatch ==
    LET kind == input.coord.kind
        c == input.coord.c
        own_axis == \E i \in DOMAIN axes(kind) : axes(kind)[i] = output.axis
    IN  /\ output.op = "distance" =>
              IF output.other.kind # kind THEN output.result = Panic
              ELSE output.result =
                      CASE kind = Square -> square_distance(c, output.other.c)
                        [] kind = Hex -> hex_distance(c, output.other.c)
                        [] kind = Triangle -> triangle_distance(c, output.other.c)
        /\ output.op = "path_iterator" =>
              IF output.other.kind # kind THEN output.result = Panic
              ELSE /\ output.result.kind = kind
                   /\ output.result =
                      CASE kind = Square -> SquarePathIter_new(c, output.other.c)
                        [] kind = Hex ->
                              HexLineIter_new(hex_to_cubical(c),
                                              hex_to_cubical(output.other.c),
                                              hex_distance(c, output.other.c))
                        [] kind = Triangle -> TrianglePathIter_new(c, output.other.c)
        /\ output.op = "move_on_axis" =>
              IF ~own_axis THEN output.result = Panic
              ELSE /\ output.result.kind = kind
                   /\ output.result.c =
                      CASE kind = Square ->
                              square_move_in_direction(c, Face,
                                  square_axis_direction(output.axis, output.positive)).v
                        [] kind = Hex ->
                              hex_move_in_direction(c, Face,
                                  hex_axis_direction(output.axis, output.positive)).v
                        [] kind = Triangle ->
                              triangle_move_on_axis(c, output.axis, output.positive)
        /\ output.op = "axis_iterator" =>
              IF ~own_axis THEN output.result = Panic
              ELSE /\ output.result.kind = kind
                   /\ output.result.range = output.range
                   /\ output.result.index = 0
                   /\ IF kind = Triangle THEN output.result.current = c
                      ELSE output.result.coord = c
        /\ output.op = "reflect" =>
              IF ~own_axis THEN output.result = Panic
              ELSE /\ output.result.kind = kind
                   /\ output.result.c =
                      CASE kind = Square -> square_reflect(c, output.axis)
                        [] kind = Hex -> hex_reflect(c, output.axis)
                        [] kind = Triangle -> triangle_reflect(c, output.axis)

C17_Witness ==
    /\ output.op = "move_on_axis"
    /\ input.coord.kind = Hex
    /\ output.axis = "A"
    /\ output.result = Panic

(***************************************************************************)
(* Sized grids.  A screen point is [u, v] in a length unit of which the    *)
(* inradius is a whole number: for Square it stands for the point (u, v),  *)
(* for Hex and Triangle for (sqrt(3) * u, v), so that the centres and      *)
(* vertices of all cells are points with integer u and v, and the          *)
(* arithmetic below is exact.  A result of f32 arithmetic that is exactly  *)
(* half way (hex_round) or exactly an integer (ceil) in the reals may fall *)
(* on either side.                                                         *)
(***************************************************************************)
MaxScreen == 3

\* Hex vertices are lattice points when the inradius is a multiple of 3.
Inradii(kind) == IF kind = Hex THEN {3} ELSE {1, 3}

ScreenPoints == [u : (0 - MaxScreen)..MaxScreen, v : (0 - MaxScreen)..MaxScreen]

\* f32::round of num / den (den > 0), exact: half way rounds away from zero.
round_half_away(num, den) ==
    LET lo == num \div den
        r == num - lo * den
    IN  IF 2 * r < den THEN lo
        ELSE IF 2 * r > den THEN lo + 1
        ELSE IF num > 0 THEN lo + 1 ELSE lo

\* Variant: rounds down.
ceil_down(num, den) == {num \div den}

\* f32::ceil of num / den (den > 0); an exact integer may come out of the
\* f32 dot product a little above or below.
ceil(num, den) ==
    LET lo == num \div den
    IN  IF lo * den = num THEN {lo, lo + 1} ELSE {lo + 1}

\* SizedGrid::grid_to_screen: inradius * [[2, 0], [0, 2]] * c (Square),
\* circumradius * conversion_matrix * c (Hex), the basis sum (Triangle).
grid_to_screen(inradius, coord) ==
    CASE coord.kind = Square ->
            [u |-> 2 * inradius * coord.c.x, v |-> 2 * inradius * coord.c.y]
      [] coord.kind = Hex ->
            [u |-> inradius * coord.c.x, v |-> inradius * (coord.c.x + 2 * coord.c.y)]
      [] coord.kind = Triangle ->
            LET p == triangle_grid_to_screen(coord.c)
            IN  [u |-> inradius * p.u, v |-> inradius * p.v]

\* SizedGrid::screen_to_grid.  Hex: grid = (u / r, (v - u) / 2r), rounded
\* as the cube (grid.x, -grid.x - grid.y, grid.y).  Triangle: the basis
\* components over the height 3r are (3u - v - 4r) / 6r, (v - 2r) / 3r and
\* (-3u - v + 8r) / 6r.
screen_to_grid(kind, inradius, point) ==
    CASE kind = Square ->
            {dyn(Square, ivec2(round_half_away(point.u, 2 * inradius),
                               round_half_away(point.v, 2 * inradius)))}
      [] kind = Hex ->
            {dyn(Hex, hex_from_cubical(cube)) :
                cube \in hex_round(ivec3(2 * point.u, 0 - point.u - point.v,
                                         point.v - point.u), 2 * inradius)}
      [] kind = Triangle ->
            {LET t == triangle_from_cubical(ivec3(abc[1], abc[2], abc[3]))
             IN  IF t = Panic THEN Panic ELSE dyn(Triangle, t) :
                abc \in ceil(3 * point.u - point.v - 4 * inradius, 6 * inradius)
                        \X ceil(point.v - 2 * inradius, 3 * inradius)
                        \X ceil(8 * inradius - 3 * point.u - point.v, 6 * inradius)}

\* SizedGrid::vertices: the centre plus the circumradius at the angles
\* pi/4 + i * pi/2 (Square), i * pi/3 (Hex), pi/2 + i * 2pi/3 (Triangle Up)
\* and pi/6 + i * 2pi/3 (Triangle Down).
vertices(inradius, coord) ==
    LET center == grid_to_screen(inradius, coord)
        r == inradius
        t == r \div 3
        offsets ==
            CASE coord.kind = Square ->
                    <<ivec2(r, r), ivec2(0 - r, r), ivec2(0 - r, 0 - r), ivec2(r, 0 - r)>>
              [] coord.kind = Hex ->
                    <<ivec2(2 * t, 0), ivec2(t, r), ivec2(0 - t, r),
                      ivec2(0 - 2 * t, 0), ivec2(0 - t, 0 - r), ivec2(t, 0 - r)>>
              [] coord.kind = Triangle /\ coord.c.point = Up ->
                    <<ivec2(0, 2 * r), ivec2(0 - r, 0 - r), ivec2(r, 0 - r)>>
              [] coord.kind = Triangle /\ coord.c.point = Down ->
                    <<ivec2(r, r), ivec2(0 - r, r), ivec2(0, 0 - 2 * r)>>
    IN  [i \in DOMAIN offsets |->
            [u |-> center.u + offsets[i].x, v |-> center.v + offsets[i].y]]

\* The projections on an axis overlap by more than f32::EPSILON, which is
\* less than any distance between two points of the lattice.  The axes are
\* (1, 0), (0, 1) and edge.perp() for each edge; on the last the projection
\* of p is a positive multiple of p.v * edge.u - p.u * edge.v.
convex_poly_intersects_rect(polygon, min, max) ==
    LET rect_vertices == <<min, [u |-> max.u, v |-> min.v], max,
                           [u |-> min.u, v |-> max.v]>>
        project_verts(verts, dot(_)) == {dot(verts[i]) : i \in DOMAIN verts}
        check_axis(dot(_)) ==
            LET p == project_verts(polygon, dot)
                r == project_verts(rect_vertices, dot)
            IN  /\ \E pmax \in p : \E rmin \in r :
                      /\ \A x \in p : x <= pmax
                      /\ \A x \in r : x >= rmin
                      /\ pmax > rmin
                /\ \E rmax \in r : \E pmin \in p :
                      /\ \A x \in r : x <= rmax
                      /\ \A x \in p : x >= pmin
                      /\ rmax > pmin
        n == Len(polygon)
    IN  /\ check_axis(LAMBDA q : q.u)
        /\ check_axis(LAMBDA q : q.v)
        /\ \A i \in 1..n :
              LET a == polygon[i]
                  b == polygon[(i % n) + 1]
                  edge == [u |-> b.u - a.u, v |-> b.v - a.v]
              IN  check_axis(LAMBDA q : q.v * edge.u - q.u * edge.v)

coord_intersects_rect(inradius, coord, min, max) ==
    convex_poly_intersects_rect(vertices(inradius, coord), min, max)

\* SizedGrid::screen_rect_to_grid: None, a panic inside screen_to_grid, or
\* the GridIterator of the kind.
screen_rect_to_grid(kind, inradius, min, max) ==
    IF ~(min.u <= max.u /\ min.v <= max.v) THEN {None}
    ELSE {IF ends[1] = Panic \/ ends[2] = Panic THEN Panic
          ELSE LET min_coord == ends[1].c
                   max_coord == ends[2].c
               IN  CASE kind = Square ->
                          [kind |-> Square, current_y |-> min_coord.y,
                           end_y |-> max_coord.y, start_x |-> min_coord.x,
                           current_x |-> min_coord.x, end_x |-> max_coord.x]
                     [] kind = Hex ->
                          LET lo == hex_move_in_direction(min_coord, Face, SouthWest).v
                              hi == hex_move_in_direction(max_coord, Face, NorthEast).v
                          IN  [kind |-> Hex, min |-> min, max |-> max,
                               row_coord |-> lo, current_coord |-> lo,
                               end_r |-> hi.y + trunc_div(hi.x - lo.x, 2) + 1,
                               row_index |-> 0, row_length |-> hi.x - lo.x + 1,
                               inradius |-> inradius]
                     [] kind = Triangle ->
                          LET lo == triangle_move_on_axis(min_coord, "B", FALSE)
                              hi == triangle_move_on_axis(max_coord, "B", TRUE)
                          IN  [kind |-> Triangle, min |-> min, max |-> max,
                               row_coord |-> lo, current_coord |-> lo,
                               end_y |-> hi.y, row_index |-> 0,
                               row_length |-> (hi.x - lo.x) * 2 + (hi.y - lo.y) + 2,
                               inradius |-> inradius] :
          ends \in screen_to_grid(kind, inradius, min)
                   \X screen_to_grid(kind, inradius, max)}

\* Variant: the column of the yielded coordinate is that of the row's start.
square_GridIterator_next_start(it) ==
    IF it.current_y > it.end_y THEN [iter |-> it, item |-> None]
    ELSE LET c == ivec2(it.start_x, it.current_y)
         IN  [iter |-> IF it.current_x + 1 > it.end_x
                       THEN [it EXCEPT !.current_x = it.start_x,
                                       !.current_y = it.current_y + 1]
                       ELSE [it EXCEPT !.current_x = it.current_x + 1],
              item |-> Some(dyn(Square, c))]

square_GridIterator_next(it) ==
    IF it.current_y > it.end_y THEN [iter |-> it, item |-> None]
    ELSE LET c == ivec2(it.current_x, it.current_y)
         IN  [iter |-> IF it.current_x + 1 > it.end_x
                       THEN [it EXCEPT !.current_x = it.start_x,
                                       !.current_y = it.current_y + 1]
                       ELSE [it EXCEPT !.current_x = it.current_x + 1],
              item |-> Some(dyn(Square, c))]

RECURSIVE hex_GridIterator_next(_)
hex_GridIterator_next(it) ==
    IF it.row_coord.y > it.end_r THEN [iter |-> it, item |-> None]
    ELSE LET c == it.current_coord
             dir == IF it.row_index % 2 = 0 THEN SouthEast ELSE NorthEast
             row_ends == it.row_index + 1 = it.row_length
             row_coord == IF row_ends
                          THEN hex_move_in_direction(it.row_coord, Face, North).v
                          ELSE it.row_coord
             advanced == [it EXCEPT
                            !.row_coord = row_coord,
                            !.row_index = IF row_ends THEN 0 ELSE it.row_index + 1,
                            !.current_coord =
                                IF row_ends THEN row_coord
                                ELSE hex_move_in_direction(c, Face, dir).v]
         IN  IF coord_intersects_rect(it.inradius, dyn(Hex, c), it.min, it.max)
             THEN [iter |-> advanced, item |-> Some(dyn(Hex, c))]
             ELSE hex_GridIterator_next(advanced)

RECURSIVE triangle_GridIterator_next(_)
triangle_GridIterator_next(it) ==
    IF it.row_coord.y > it.end_y THEN [iter |-> it, item |-> None]
    ELSE LET c == it.current_coord
             row_ends == it.row_index + 1 = it.row_length
             row_coord ==
                IF ~row_ends THEN it.row_coord
                ELSE IF it.row_coord.point = Up
                THEN triangle_move_in_direction(it.row_coord, Vertex, North).v
                ELSE triangle_move_in_direction(it.row_coord, Face, North).v
             advanced == [it EXCEPT
                            !.row_coord = row_coord,
                            !.row_index = IF row_ends THEN 0 ELSE it.row_index + 1,
                            !.current_coord =
                                IF row_ends THEN row_coord
                                ELSE triangle_move_on_axis(c, "B", TRUE)]
         IN  IF coord_intersects_rect(it.inradius, dyn(Triangle, c), it.min, it.max)
             THEN [iter |-> advanced, item |-> Some(dyn(Triangle, c))]
             ELSE triangle_GridIterator_next(advanced)

(***************************************************************************)
(* SpecRect: a caller asks a sized grid for the coordinates of a screen    *)
(* rectangle and pulls the iterator it gets until it returns None.         *)
(***************************************************************************)
InitRect ==
    /\ pc = "rect"
    /\ \E kind \in Kinds :
          input \in [kind : {kind}, inradius : Inradii(kind),
                     min : ScreenPoints, max : ScreenPoints]
    /\ iter = Idle
    /\ output = [op |-> "none"]

ScreenRectToGrid ==
    /\ pc = "rect"
    /\ \E result \in screen_rect_to_grid(input.kind, input.inradius, input.min, input.max) :
          IF result = None \/ result = Panic
          THEN /\ pc' = "done"
               /\ iter' = Idle
               /\ output' = [op |-> "screen_rect_to_grid",
                             returned |-> IF result = None THEN "None" ELSE "panic",
                             yielded |-> <<>>, done |-> FALSE]
          ELSE /\ pc' = "path"
               /\ iter' = result
               /\ output' = [op |-> "screen_rect_to_grid", returned |-> "Some",
                             yielded |-> <<>>, done |-> FALSE]
    /\ UNCHANGED input

GridIteratorNext ==
    /\ pc = "path"
    /\ Pull({CASE iter.kind = Square -> square_GridIterator_next(iter)
               [] iter.kind = Hex -> hex_GridIterator_next(iter)
               [] iter.kind = Triangle -> triangle_GridIterator_next(iter)})

NextRect == ScreenRectToGrid \/ GridIteratorNext

SpecRect == InitRect /\ [][NextRect]_vars

\* C18: screen_rect_to_grid returns None exactly when min.x > max.x or
\* min.y > max.y, and an iterator whenever min <= max in both components.
C18_RectNoneOrIterator ==
    output.op = "screen_rect_to_grid" =>
        /\ output.returned = "None" <=>
              (input.min.u > input.max.u \/ input.min.v > input.max.v)
        /\ (input.min.u <= input.max.u /\ input.min.v <= input.max.v)
              => output.returned = "Some"

\* The rectangle that is the one point (sqrt(3) * 3, -3), a vertex of the
\* Triangle cell at the origin when the inradius is 3.
C18_Witness ==
    /\ output.op = "screen_rect_to_grid"
    /\ input.kind = Triangle
    /\ input.inradius = 3
    /\ input.min = [u |-> 3, v |-> 0 - 3]
    /\ input.max = input.min
    /\ output.returned = "panic"

\* The vertices of the cells of a kind among the screen points.
LatticeVertices(kind, inradius) ==
    {p \in ScreenPoints :
        \E c \in Coords : /\ c.kind = kind
                          /\ \E i \in DOMAIN vertices(inradius, c) :
                                vertices(inradius, c)[i] = p}

\* None is returned exactly for the rectangles that are not ordered, and
\* the only panic is that of a Triangle grid with a corner of the rectangle
\* on a vertex of a cell.
RectPanicsOnlyAtVertices ==
    output.op = "screen_rect_to_grid" =>
        /\ output.returned = "None" <=>
              (input.min.u > input.max.u \/ input.min.v > input.max.v)
        /\ output.returned = "panic" =>
              /\ input.kind = Triangle
              /\ \E p \in {input.min, input.max} :
                    p \in LatticeVertices(Triangle, input.inradius)

\* The coordinates of a kind near enough to meet a rectangle of ScreenPoints.
NearCoords(kind) ==
    LET n == MaxScreen + 2
    IN  IF kind = Triangle
        THEN {dyn(Triangle, tri(x, y, point)) :
                x \in (0 - n)..n, y \in (0 - n)..n, point \in TrianglePoints}
        ELSE {dyn(kind, ivec2(x, y)) : x \in (0 - n)..n, y \in (0 - n)..n}

\* The coordinates whose cell intersects the rectangle of the input.
Intersecting ==
    {c \in NearCoords(input.kind) :
        coord_intersects_rect(input.inradius, c, input.min, input.max)}

\* C19: the coordinates an iterator of screen_rect_to_grid yields are
\* exactly those whose cell intersects the rectangle, where touching along
\* an edge or at a vertex is no intersection.
C19_RectYieldsIntersecting ==
    (pc = "done" /\ output.returned = "Some") =>
        {output.yielded[i] : i \in 1..Len(output.yielded)} = Intersecting

\* With inradius 1 the Square cell (0, 0) is [-1, 1] x [-1, 1]; the
\* rectangle from (0, 0) to (1, 1) lies inside it and only touches the
\* cells (1, 0), (0, 1) and (1, 1).
C19_Witness ==
    /\ pc = "done"
    /\ input.kind = Square
    /\ input.inradius = 1
    /\ input.min = [u |-> 0, v |-> 0]
    /\ input.max = [u |-> 1, v |-> 1]
    /\ output.yielded = <<dyn(Square, ivec2(0, 0)), dyn(Square, ivec2(1, 0)),
                          dyn(Square, ivec2(0, 1)), dyn(Square, ivec2(1, 1))>>
    /\ Intersecting = {dyn(Square, ivec2(0, 0))}

\* The Hex and Triangle iterators yield exactly the intersecting
\* coordinates, each once; the Square iterator yields all of them, and
\* more only when the rectangle ends on the edge of a cell.
RectYieldsIntersectingButSquare ==
    (pc = "done" /\ output.returned = "Some") =>
        LET yielded == {output.yielded[i] : i \in 1..Len(output.yielded)}
        IN  /\ Cardinality(yielded) = Len(output.yielded)
            /\ Intersecting \subseteq yielded
            /\ input.kind # Square => yielded = Intersecting
            /\ (input.kind = Square /\ yielded # Intersecting) =>
                  \E p \in {input.min, input.max} :
                      \/ (p.u + input.inradius) % (2 * input.inradius) = 0
                      \/ (p.v + input.inradius) % (2 * input.inradius) = 0

(***************************************************************************)
(* SpecCentre: the centre of a cell, or of one of its neighbours, is taken *)
(* to the screen and back.                                                 *)
(***************************************************************************)
MaxInradius == 3

InitCentre ==
    /\ pc = "centre"
    /\ input \in [coord : Coords, inradius : 1..MaxInradius]
    /\ iter = Idle
    /\ output = [op |-> "none"]

\* The coordinate itself, or coord.move_in_direction(dir_type, dir).
GridToScreen ==
    /\ pc = "centre"
    /\ \E target \in {input.coord} \cup
                     UNION {{move_in_direction(input.coord, dir_type, dir).v :
                                dir \in allowed_directions(input.coord, dir_type)} :
                            dir_type \in DirectionTypes} :
          output' = [op |-> "grid_to_screen", coord |-> target,
                     point |-> grid_to_screen(input.inradius, target)]
    /\ pc' = "screen"
    /\ UNCHANGED <<input, iter>>

ScreenToGrid ==
    /\ pc = "screen"
    /\ \E back \in screen_to_grid(input.coord.kind, input.inradius, output.point) :
          output' = [op |-> "screen_to_grid", coord |-> output.coord,
                     point |-> output.point, back |-> back]
    /\ pc' = "done"
    /\ UNCHANGED <<input, iter>>

NextCentre == GridToScreen \/ ScreenToGrid

SpecCentre == InitCentre /\ [][NextCentre]_vars

\* C20: screen_to_grid(grid_to_screen(c)) = c for every coordinate c, and
\* the same for c.move_in_direction(d) for every allowed direction d of
\* either direction type.
C20_CentreRoundTrip ==
    output.op = "screen_to_grid" => output.back = output.coord

\* A Down triangle reached by a Vertex move comes back from the screen.
C20_Witness ==
    /\ output.op = "screen_to_grid"
    /\ input.coord = dyn(Triangle, tri(0, 0, Up))
    /\ output.coord # input.coord
    /\ output.coord.c.point = Down
    /\ output.back = output.coord

(***************************************************************************)
(* SpecCubical: a Hex or Triangle coordinate is turned and reflected a few *)
(* times; after each transform its cubical form is taken and converted     *)
(* back.                                                                   *)
(***************************************************************************)
to_cubical(coord) ==
    IF coord.kind = Hex THEN hex_to_cubical(coord.c) ELSE triangle_to_cubical(coord.c)

from_cubical(kind, cube) ==
    IF kind = Hex THEN dyn(Hex, hex_from_cubical(cube))
    ELSE dyn(Triangle, triangle_from_cubical(cube))

CubicalOutput(op, coord) ==
    IF coord.c = Panic THEN [op |-> op, panicked |-> TRUE]
    ELSE [op |-> op, panicked |-> FALSE, cubical |-> to_cubical(coord),
          back |-> from_cubical(coord.kind, to_cubical(coord))]

InitCubical ==
    /\ pc = "cubical"
    /\ input \in [coord : HexCoords \cup TriangleCoords]
    /\ iter = [current |-> input.coord, count |-> 0]
    /\ output = CubicalOutput("new", input.coord)

Transform(op, result) ==
    /\ pc = "cubical"
    /\ iter.count < MaxTurns
    /\ iter' = [current |-> result, count |-> iter.count + 1]
    /\ output' = CubicalOutput(op, result)
    /\ pc' = IF result.c = Panic THEN "panic" ELSE "cubical"
    /\ UNCHANGED input

CubicalRotateClockwise ==
    /\ pc = "cubical"
    /\ Transform("rotate_clockwise", rotate_clockwise(iter.current))

CubicalRotateCounterclockwise ==
    /\ pc = "cubical"
    /\ Transform("rotate_counterclockwise", rotate_counterclockwise(iter.current))

CubicalReflect ==
    /\ pc = "cubical"
    /\ \E i \in DOMAIN axes(input.coord.kind) :
          Transform("reflect", reflect(iter.current, axes(input.coord.kind)[i]))

NextCubical ==
    CubicalRotateClockwise \/ CubicalRotateCounterclockwise \/ CubicalReflect

SpecCubical == InitCubical /\ [][NextCubical]_vars

\* C21: the cubical form of a Triangle coordinate sums to 2 when it points
\* Up and to 1 when it points Down, that of a Hex coordinate to 0,
\* from_cubical(to_cubical(c)) = c, and rotate_clockwise,
\* rotate_counterclockwise and reflect never fail the assertion of
\* from_cubical.
C21_CubicalInvariants ==
    /\ pc # "panic"
    /\ ~output.panicked
    /\ LET sum == output.cubical.x + output.cubical.y + output.cubical.z
       IN  /\ iter.current.kind = Hex => sum = 0
           /\ iter.current.kind = Triangle =>
                 sum = (IF iter.current.c.point = Up THEN 2 ELSE 1)
    /\ output.back = iter.current

\* An Up triangle away from the origin is turned clockwise into another
\* Up triangle, whose cubical form sums to 2.
C21_Witness ==
    /\ output.op = "rotate_clockwise"
    /\ input.coord = dyn(Triangle, tri(2, 0 - 1, Up))
    /\ iter.count = 1
    /\ iter.current # input.coord
    /\ iter.current.c.point = Up
    /\ output.cubical.x + output.cubical.y + output.cubical.z = 2
    /\ output.back = iter.current

(***************************************************************************)
(* Direction and DirectionSet.  A DirectionSet is the u8 whose bit i is    *)
(* set when the Direction with discriminant i is in the set.               *)
(***************************************************************************)
MaxSteps == 9

VALUES_BITS == 255
CARDINAL == 85
ORDINAL == 170

\* Variant: positive steps add to the discriminant.
Direction_rotate_added(dir, steps) == rem_euclid(dir + steps, 8)

\* Direction::rotate: from_u8((self as isize).overflowing_sub(steps).0.rem_euclid(8) as u8)
Direction_rotate(dir, steps) == rem_euclid(dir - steps, 8)

\* Direction::not is opposite.
Direction_not(dir) == opposite(dir)

bit_test(v, index) == (v \div (2 ^ index)) % 2 = 1

RECURSIVE u8_with_bits(_)
u8_with_bits(indices) ==
    IF indices = {} THEN 0
    ELSE LET i == CHOOSE i \in indices : TRUE
         IN  (2 ^ i) + u8_with_bits(indices \ {i})

\* bit_and, bit_andnot and bit_or of the two bytes; bit_none.
DirectionSet_intersection(a, other) ==
    u8_with_bits({i \in 0..7 : bit_test(a, i) /\ bit_test(other, i)})
DirectionSet_difference(a, other) ==
    u8_with_bits({i \in 0..7 : bit_test(a, i) /\ ~bit_test(other, i)})
DirectionSet_union(a, other) ==
    u8_with_bits({i \in 0..7 : bit_test(a, i) \/ bit_test(other, i)})
DirectionSet_is_empty(a) == \A i \in 0..7 : ~bit_test(a, i)
DirectionSet_contains(a, dir) == bit_test(a, dir)

(***************************************************************************)
(* SpecCompass: the calls of test_direction_rotation,                      *)
(* test_direction_invertibility and of the CARDINAL / ORDINAL tests on one *)
(* direction and one number of steps.                                      *)
(***************************************************************************)
InitCompass ==
    /\ pc = "compass"
    /\ input \in [dir : VALUES, steps : (0 - MaxSteps)..MaxSteps]
    /\ iter = Idle
    /\ output = [op |-> "none"]

NotNot ==
    /\ pc = "compass"
    /\ output' = [op |-> "not", once |-> Direction_not(input.dir),
                  twice |-> Direction_not(Direction_not(input.dir))]
    /\ pc' = "done"
    /\ UNCHANGED <<input, iter>>

ClockwiseThenCounter ==
    /\ pc = "compass"
    /\ output' = [op |-> "clockwise", once |-> clockwise(input.dir),
                  back |-> counter_clockwise(clockwise(input.dir))]
    /\ pc' = "done"
    /\ UNCHANGED <<input, iter>>

DirectionRotate ==
    /\ pc = "compass"
    /\ output' = [op |-> "rotate", result |-> Direction_rotate(input.dir, input.steps)]
    /\ pc' = "done"
    /\ UNCHANGED <<input, iter>>

CardinalOrdinal ==
    /\ pc = "compass"
    /\ output' = [op |-> "sets",
                  is_cardinal |-> DirectionSet_contains(CARDINAL, input.dir),
                  is_ordinal |-> DirectionSet_contains(ORDINAL, input.dir),
                  in_values |-> DirectionSet_contains(VALUES_BITS, input.dir),
                  both |-> DirectionSet_intersection(CARDINAL, ORDINAL),
                  either |-> DirectionSet_union(CARDINAL, ORDINAL),
                  not_cardinal |-> DirectionSet_difference(VALUES_BITS, CARDINAL),
                  not_ordinal |-> DirectionSet_difference(VALUES_BITS, ORDINAL)]
    /\ pc' = "done"
    /\ UNCHANGED <<input, iter>>

NextCompass == NotNot \/ ClockwiseThenCounter \/ DirectionRotate \/ CardinalOrdinal

SpecCompass == InitCompass /\ [][NextCompass]_vars

\* C22: !!d = d, d.clockwise().counter_clockwise() = d, rotate(1) is
\* clockwise, rotate(-1) counter-clockwise, rotate(8) and rotate(-8) the
\* identity, and CARDINAL and ORDINAL are disjoint, together make VALUES,
\* and each is VALUES minus the other.
C22_DirectionAlgebra ==
    /\ output.op = "not" => output.twice = input.dir
    /\ output.op = "clockwise" => output.back = input.dir
    /\ output.op = "rotate" =>
          /\ input.steps = 1 => output.result = clockwise(input.dir)
          /\ input.steps = 0 - 1 => output.result = counter_clockwise(input.dir)
          /\ input.steps \in {8, 0 - 8} => output.result = input.dir
    /\ output.op = "sets" =>
          /\ DirectionSet_is_empty(output.both)
          /\ output.either = VALUES_BITS
          /\ output.not_cardinal = ORDINAL
          /\ output.not_ordinal = CARDINAL
          /\ output.in_values
          /\ output.is_cardinal # output.is_ordinal

\* East turned by one step is SouthEast, the direction clockwise of it.
C22_Witness ==
    /\ output.op = "rotate"
    /\ input.dir = East
    /\ input.steps = 1
    /\ output.result = SouthEast
    /\ clockwise(East) = SouthEast

(***************************************************************************)
(* Direction::parse.  A string is the sequence of its characters.          *)
(***************************************************************************)
MaxLen == 2

\* The characters the short inputs are made of.
Alphabet == {"e", "n", "s", "w", "E", "N", "S", "W", " ", "-", "_", "x"}

\* str::to_lowercase on the characters in use.
to_lowercase(s) ==
    [i \in DOMAIN s |->
        CASE s[i] = "E" -> "e" [] s[i] = "N" -> "n" [] s[i] = "S" -> "s"
          [] s[i] = "W" -> "w" [] OTHER -> s[i]]

starts_with(s, word) == Len(s) >= Len(word) /\ SubSeq(s, 1, Len(word)) = word
ends_with(s, word) ==
    Len(s) >= Len(word) /\ SubSeq(s, Len(s) - Len(word) + 1, Len(s)) = word

\* (\s*|-|_)
is_separator(sep) ==
    \/ \A i \in DOMAIN sep : sep[i] = " "
    \/ sep = <<"-">>
    \/ sep = <<"_">>

\* DIRECTION_REGEX_SET in the order of the enum.  Each regex is
\* ^short|long$ where long is first, or first(\s*|-|_)second.
DIRECTION_REGEX_SET ==
    <<
      [short |-> <<"e">>, first |-> <<"e", "a", "s", "t">>, second |-> <<>>],
      [short |-> <<"n", "e">>, first |-> <<"n", "o", "r", "t", "h">>, second |-> <<"e", "a", "s", "t">>],
      [short |-> <<"n">>, first |-> <<"n", "o", "r", "t", "h">>, second |-> <<>>],
      [short |-> <<"n", "w">>, first |-> <<"n", "o", "r", "t", "h">>, second |-> <<"w", "e", "s", "t">>],
      [short |-> <<"w">>, first |-> <<"w", "e", "s", "t">>, second |-> <<>>],
      [short |-> <<"s", "w">>, first |-> <<"s", "o", "u", "t", "h">>, second |-> <<"w", "e", "s", "t">>],
      [short |-> <<"s">>, first |-> <<"s", "o", "u", "t", "h">>, second |-> <<>>],
      [short |-> <<"s", "e">>, first |-> <<"s", "o", "u", "t", "h">>, second |-> <<"e", "a", "s", "t">>]
    >>

\* first(\s*|-|_)second matches all of s.
is_long_name(regex, s) ==
    IF regex.second = <<>> THEN s = regex.first
    ELSE /\ starts_with(s, regex.first)
         /\ ends_with(s, regex.second)
         /\ Len(s) >= Len(regex.first) + Len(regex.second)
         /\ is_separator(SubSeq(s, Len(regex.first) + 1, Len(s) - Len(regex.second)))

\* Regex::is_match of ^short|long$: the alternation binds loosest, so the
\* regex matches a string that starts with short, or that ends with long.
Regex_is_match(regex, s) ==
    \/ starts_with(s, regex.short)
    \/ \E k \in 1..(Len(s) + 1) : is_long_name(regex, SubSeq(s, k, Len(s)))

from_u8_checked(value) == IF value \in 0..7 THEN Some(value) ELSE None

\* The first index of RegexSet::matches, if any, as a Direction.
parse(s) ==
    LET lower == to_lowercase(s)
        matches == {index \in 0..7 : Regex_is_match(DIRECTION_REGEX_SET[index + 1], lower)}
    IN  IF matches = {} THEN None
        ELSE from_u8_checked(CHOOSE index \in matches : \A j \in matches : index <= j)

short_name(dir) == <<<<"E">>, <<"N", "E">>, <<"N">>, <<"N", "W">>, <<"W">>, <<"S", "W">>, <<"S">>, <<"S", "E">>>>[dir + 1]

RECURSIVE Strings(_)
Strings(n) ==
    IF n = 0 THEN {<<>>}
    ELSE LET shorter == Strings(n - 1)
         IN  shorter \cup {Append(t, ch) : t \in {u \in shorter : Len(u) = n - 1},
                                             ch \in Alphabet}

\* The strings of test_direction_parse_success and
\* test_direction_parse_failure, and every short string.
ParseInputs ==
    Strings(MaxLen) \cup
    {<<"e", "a", "s", "t", "-", " ", "w", "e", "s", "t">>,
     <<"n", "o", "r", "t", "h", "_", "_", "e", "a", "s", "t">>,
     <<"s", "e", "-">>,
     <<"-", "n", "e">>,
     <<"n", "o", "r", "t", "h", " ", "e", "a", "s", "t">>,
     <<"s", "o", "u", "t", "h", "-", "w", "e", "s", "t">>,
     <<"n", "o", "r", "t", "h", "_", "w", "e", "s", "t">>,
     <<"s", "o", "u", "t", "h", "e", "a", "s", "t">>,
     <<"e", "a", "s", "t">>,
     <<"n", "o", "r", "t", "h">>,
     <<"w", "e", "s", "t">>,
     <<"s", "o", "u", "t", "h">>,
     <<"f", "o", "o">>,
     <<"n", "o", "r", "t", "h", " ", " ", "e", "a", "s", "t">>}

(***************************************************************************)
(* SpecParse: a caller parses a string, or the short name of a direction.  *)
(***************************************************************************)
InitParse ==
    /\ pc = "parse"
    /\ input \in [s : ParseInputs, dir : VALUES]
    /\ iter = Idle
    /\ output = [op |-> "none"]

Parse ==
    /\ pc = "parse"
    /\ output' = [op |-> "parse", s |-> input.s, result |-> parse(input.s)]
    /\ pc' = "done"
    /\ UNCHANGED <<input, iter>>

ParseShortName ==
    /\ pc = "parse"
    /\ output' = [op |-> "short_name", s |-> short_name(input.dir),
                  result |-> parse(short_name(input.dir))]
    /\ pc' = "done"
    /\ UNCHANGED <<input, iter>>

NextParse == Parse \/ ParseShortName

SpecParse == InitParse /\ [][NextParse]_vars

\* The direction a string names: in lower case it is the short name or the
\* long name of the direction, the two words of an intercardinal name
\* joined by nothing, whitespace, '-' or '_'.
NamedDirections(s) ==
    {dir \in VALUES :
        LET regex == DIRECTION_REGEX_SET[dir + 1]
        IN  to_lowercase(s) = regex.short \/ is_long_name(regex, to_lowercase(s))}

\* C23: parse maps the short name and the long name of a direction, in any
\* case, to that direction, so parse(d.short_name()) = Some(d), and every
\* other string to None.
C23_ParseNames ==
    /\ output.op \in {"parse", "short_name"} =>
          /\ \A dir \in NamedDirections(output.s) : output.result = Some(dir)
          /\ NamedDirections(output.s) = {} => output.result = None
    /\ output.op = "short_name" => output.result = Some(input.dir)

\* "NW" starts with "n", which regex 2 (North) accepts before regex 3.
C23_Witness ==
    /\ output.op = "short_name"
    /\ input.dir = NorthWest
    /\ output.s = <<"N", "W">>
    /\ output.result = Some(North)

\* What parse does with names: no name is rejected, every name of East,
\* North, West and South and the short names of NorthEast and SouthWest
\* give their direction, the short names of NorthWest and SouthEast give
\* North and South, and a long intercardinal name gives East or West where
\* it ends with that word, North for "north...west".
ParseOfNames ==
    output.op \in {"parse", "short_name"} =>
        \A dir \in NamedDirections(output.s) :
            LET lower == to_lowercase(output.s)
            IN  /\ output.result # None
                /\ dir \in {East, North, West, South} => output.result = Some(dir)
                /\ lower \in {<<"n", "e">>, <<"s", "w">>} => output.result = Some(dir)
                /\ lower = <<"n", "w">> => output.result = Some(North)
                /\ lower = <<"s", "e">> => output.result = Some(South)
                /\ (dir \in {NorthEast, SouthEast} /\ Len(lower) > 2) =>
                      output.result = Some(East)
                /\ (dir = NorthWest /\ Len(lower) > 2) => output.result = Some(North)
                /\ (dir = SouthWest /\ Len(lower) > 2) => output.result = Some(West)

(***************************************************************************)
(* SpecTurn: a neighbour of the origin in an allowed Face direction is     *)
(* rotated about the origin.                                               *)
(***************************************************************************)
\* The next allowed Face direction of coord from dir, turning with
\* Direction::clockwise or Direction::counter_clockwise.
RECURSIVE next_allowed(_, _, _)
next_allowed(coord, dir, turn) ==
    LET next == IF turn = "clockwise" THEN clockwise(dir) ELSE counter_clockwise(dir)
    IN  IF allowed_direction(coord, Face, next) THEN next
        ELSE next_allowed(coord, next, turn)

neighbour(coord, dir) == move_in_direction(coord, Face, dir).v

InitTurn ==
    /\ pc = "turn"
    /\ \E kind \in Kinds :
          input \in [coord : {origin(kind)},
                     dir : allowed_directions(origin(kind), Face),
                     steps : 0..MaxTurns]
    /\ iter = Idle
    /\ output = [op |-> "none"]

RotateNeighbour ==
    /\ pc = "turn"
    /\ LET n == neighbour(input.coord, input.dir)
       IN  output' = [op |-> "rotate_clockwise", neighbour |-> n,
                      clockwise |-> rotate_clockwise(n),
                      counterclockwise |-> rotate_counterclockwise(n)]
    /\ pc' = "done"
    /\ UNCHANGED <<input, iter>>

RotateBySteps ==
    /\ pc = "turn"
    /\ LET n == neighbour(input.coord, input.dir)
       IN  output' = [op |-> "rotate", neighbour |-> n,
                      result |-> rotate(n, input.steps)]
    /\ pc' = "done"
    /\ UNCHANGED <<input, iter>>

NextTurn == RotateNeighbour \/ RotateBySteps

SpecTurn == InitTurn /\ [][NextTurn]_vars

RECURSIVE repeated_rotate_clockwise(_, _)
repeated_rotate_clockwise(coord, n) ==
    IF n = 0 THEN coord ELSE repeated_rotate_clockwise(rotate_clockwise(coord), n - 1)

\* C24: rotate_clockwise takes the origin's neighbour in the allowed Face
\* direction d to the neighbour in the next allowed Face direction
\* clockwise of d, rotate_counterclockwise to the next one
\* counter-clockwise, and rotate(steps) with steps > 0 is rotate_clockwise
\* applied steps times.
C24_RotateIsClockwise ==
    /\ output.op = "rotate_clockwise" =>
          /\ output.clockwise =
                neighbour(input.coord, next_allowed(input.coord, input.dir, "clockwise"))
          /\ output.counterclockwise =
                neighbour(input.coord,
                          next_allowed(input.coord, input.dir, "counter_clockwise"))
    /\ output.op = "rotate" =>
          output.result = repeated_rotate_clockwise(output.neighbour, input.steps)

\* The East neighbour (1, 0) of the Square origin goes to (0, 1), the
\* North neighbour; clockwise of East lies South.
C24_Witness ==
    /\ output.op = "rotate_clockwise"
    /\ input.coord = dyn(Square, ivec2(0, 0))
    /\ input.dir = East
    /\ output.clockwise = dyn(Square, ivec2(0, 1))
    /\ output.clockwise = neighbour(input.coord, North)
    /\ next_allowed(input.coord, East, "clockwise") = South

\* For all three kinds rotate_clockwise turns the neighbours of the origin
\* the other way, to the next allowed Face direction counter-clockwise,
\* and rotate_counterclockwise to the next one clockwise.
RotateTurnsCounterClockwise ==
    output.op = "rotate_clockwise" =>
        /\ output.clockwise =
              neighbour(input.coord,
                        next_allowed(input.coord, input.dir, "counter_clockwise"))
        /\ output.counterclockwise =
              neighbour(input.coord, next_allowed(input.coord, input.dir, "clockwise"))

(***************************************************************************)
(* SpecContains: a caller asks whether the cell of a coordinate contains a *)
(* screen point, for its own centre and for any point.                     *)
(***************************************************************************)
\* SizedGrid::coord_contains: self.grid_to_screen(coord) == point
coord_contains(inradius, coord, point) == grid_to_screen(inradius, coord) = point

InitContains ==
    /\ pc = "contains"
    /\ \E kind \in Kinds :
          input \in [coord : {c \in Coords : c.kind = kind},
                     inradius : Inradii(kind), point : ScreenPoints]
    /\ iter = Idle
    /\ output = [op |-> "none"]

CoordContains ==
    /\ pc = "contains"
    /\ output' = [op |-> "coord_contains", point |-> input.point,
                  result |-> coord_contains(input.inradius, input.coord, input.point)]
    /\ pc' = "done"
    /\ UNCHANGED <<input, iter>>

\* sized_grid_identity: the point is the screen centre of the coordinate.
CoordContainsCentre ==
    /\ pc = "contains"
    /\ LET screen_coord == grid_to_screen(input.inradius, input.coord)
       IN  output' = [op |-> "coord_contains", point |-> screen_coord,
                      result |-> coord_contains(input.inradius, input.coord, screen_coord)]
    /\ pc' = "done"
    /\ UNCHANGED <<input, iter>>

NextContains == CoordContains \/ CoordContainsCentre

SpecContains == InitContains /\ [][NextContains]_vars

\* The point lies strictly inside the convex polygon: strictly on the same
\* side of every edge.
strictly_inside(polygon, p) ==
    LET n == Len(polygon)
        side(i) ==
            LET a == polygon[i]
                b == polygon[(i % n) + 1]
            IN  (b.u - a.u) * (p.v - a.v) - (b.v - a.v) * (p.u - a.u)
    IN  (\A i \in 1..n : side(i) > 0) \/ (\A i \in 1..n : side(i) < 0)

\* C25: coord_contains is true for the screen centre of the cell and for
\* every other point strictly inside the polygon of the cell, and false for
\* every point strictly inside another cell.
C25_ContainsInterior ==
    output.op = "coord_contains" =>
        /\ output.point = grid_to_screen(input.inradius, input.coord) => output.result
        /\ strictly_inside(vertices(input.inradius, input.coord), output.point)
              => output.result
        /\ (\E other \in NearCoords(input.coord.kind) :
              /\ other # input.coord
              /\ strictly_inside(vertices(input.inradius, other), output.point))
              => ~output.result

\* With inradius 3 the Square cell (0, 0) is [-3, 3] x [-3, 3]; the point
\* (1, 0) is inside it and is not its centre.
C25_Witness ==
    /\ output.op = "coord_contains"
    /\ input.coord = dyn(Square, ivec2(0, 0))
    /\ input.inradius = 3
    /\ output.point = [u |-> 1, v |-> 0]
    /\ strictly_inside(vertices(3, input.coord), output.point)
    /\ ~output.result

\* coord_contains is true for the centre of the cell alone, so it is false
\* for the points of other cells.
ContainsOnlyCentre ==
    output.op = "coord_contains" =>
        /\ output.result <=>
              output.point = grid_to_screen(input.inradius, input.coord)
        /\ output.result =>
              strictly_inside(vertices(input.inradius, input.coord), output.point)
        /\ (\E other \in NearCoords(input.coord.kind) :
              /\ other # input.coord
              /\ strictly_inside(vertices(input.inradius, other), output.point))
              => ~output.result

(***************************************************************************)
(* Tic-tac-toe (examples/games/tictactoe).  The board is the map from the  *)
(* squares of the board to Option<Player>; a map of moves is a function    *)
(* from some of the players to squares.                                    *)
(***************************************************************************)
\* Config::default: the traditional 3x3 game.
DEFAULT_SIZE == 3

Players == {"X", "O"}
Player_next(player) == IF player = "X" THEN "O" ELSE "X"

State_new(size) ==
    [size |-> size, turns |-> 0, player |-> "X",
     board |-> [c \in {ivec2(x, y) : x \in 0..(size - 1), y \in 0..(size - 1)} |-> None]]

\* HashShapeContainer::get (HashMap::get)
board_get(board, c) == IF c \in DOMAIN board THEN Some(board[c]) ELSE None

\* .take_while(|c| self.board.get(c) == Some(&Some(player))).count()
RECURSIVE take_while_count(_, _, _)
take_while_count(it, board, player) ==
    LET r == CHOOSE r \in ModuleCoordIter_next(it) : TRUE
    IN  IF ~r.item.some THEN 0
        ELSE IF board_get(board, r.item.v.c) = Some(Some(player))
        THEN 1 + take_while_count(r.iter, board, player)
        ELSE 0

check_line(state, player, x, y, dir_type, dir) ==
    take_while_count(direction_iterator(dyn(Square, ivec2(x, y)), dir_type, dir,
                                        [kind |-> "to", end |-> state.size]),
                     state.board, player) >= state.size

\* State::winner
winner(state, player) ==
    \/ \E col \in 0..(state.size - 1) : check_line(state, player, col, 0, Face, North)
    \/ \E row \in 0..(state.size - 1) : check_line(state, player, 0, row, Face, East)
    \/ check_line(state, player, 0, 0, Vertex, NorthEast)
    \/ check_line(state, player, state.size, 0, Vertex, NorthWest)

is_over(state) ==
    \/ winner(state, "X")
    \/ winner(state, "O")
    \/ Cardinality({c \in DOMAIN state.board : state.board[c] = None}) = 0

\* State::moves collected: the MoveIterator yields nothing when the game
\* is over or the player is not the one to move, else the empty squares.
moves(state, player) ==
    IF is_over(state) \/ state.player # player THEN {}
    ELSE {c \in DOMAIN state.board : state.board[c] = None}

\* State::next.  Inserting into a square that is not in the board fails
\* the assertion "Square must be in the board".
State_next(state, moves_map) ==
    IF is_over(state) \/ Cardinality(DOMAIN moves_map) > 1 \/ DOMAIN moves_map = {}
    THEN None
    ELSE IF state.player \notin DOMAIN moves_map THEN None
    ELSE LET m == moves_map[state.player]
             old_contents == board_get(state.board, m)
         IN  IF old_contents.some /\ old_contents.v.some THEN None
             ELSE IF ~old_contents.some THEN Panic
             ELSE Some([size |-> state.size,
                        turns |-> state.turns + 1,
                        player |-> Player_next(state.player),
                        board |-> [state.board EXCEPT ![m] = Some(state.player)]])

\* State::payoffs, as the numerators over max_moves.
payoffs(state) ==
    LET max_moves == state.size * state.size
        win_score == 1 + max_moves - state.turns
        lose_score == 0 - win_score
    IN  IF winner(state, "X") THEN [X |-> win_score, O |-> lose_score]
        ELSE IF winner(state, "O") THEN [X |-> lose_score, O |-> win_score]
        ELSE [X |-> 0, O |-> 0]

\* The maps of moves a caller passes: none, one move of either player to a
\* square of the board or just outside it, or the same square for both.
MoveMaps(size) ==
    LET squares == {ivec2(x, y) : x \in (0 - 1)..size, y \in (0 - 1)..size}
    IN  UNION {[who -> squares] : who \in {{}, {"X"}, {"O"}}}
        \cup {[player \in Players |-> c] : c \in squares}

(***************************************************************************)
(* SpecGame: a game is played from Game::start with moves drawn from       *)
(* moves(); after each move the caller asks is_over, moves and payoffs.    *)
(* At any point a caller may call next with any map of moves.              *)
(***************************************************************************)
Observe(state) ==
    [op |-> "play", is_over |-> is_over(state),
     moves |-> [player \in Players |-> moves(state, player)],
     payoffs |-> payoffs(state)]

InitGame ==
    /\ pc = "play"
    /\ input \in [size : 1..DEFAULT_SIZE]
    /\ iter = State_new(input.size)
    /\ output = Observe(iter)

Play ==
    /\ pc = "play"
    /\ \E m \in moves(iter, iter.player) :
          LET result == State_next(iter, [player \in {iter.player} |-> m])
          IN  /\ iter' = result.v
              /\ output' = Observe(result.v)
    /\ UNCHANGED <<pc, input>>

CallNext ==
    /\ pc = "play"
    /\ \E moves_map \in MoveMaps(input.size) :
          output' = [op |-> "next", moves |-> moves_map, receiver |-> iter,
                     result |-> State_next(iter, moves_map)]
    /\ pc' = "done"
    /\ UNCHANGED <<input, iter>>

NextGame == Play \/ CallNext

SpecGame == InitGame /\ [][NextGame]_vars

\* The squares of the full columns, the full rows, the diagonal from (0, 0)
\* and the anti-diagonal from (size - 1, 0).
Lines(size) ==
    LET n == 0..(size - 1)
    IN  {{ivec2(x, y) : y \in n} : x \in n}
        \cup {{ivec2(x, y) : x \in n} : y \in n}
        \cup {{ivec2(i, i) : i \in n}, {ivec2(size - 1 - i, i) : i \in n}}

occupies(state, player, line) == \A c \in line : state.board[c] = Some(player)

\* C26: a player who occupies a full column, row, diagonal or anti-diagonal
\* has won: is_over is true, moves is empty for both players, and payoffs
\* gives the player a positive payoff and the opponent the negated one.
C26_LineWins ==
    output.op = "play" =>
        \A player \in Players : \A line \in Lines(iter.size) :
            occupies(iter, player, line) =>
                /\ output.is_over
                /\ \A p \in Players : output.moves[p] = {}
                /\ output.payoffs[player] > 0
                /\ output.payoffs[Player_next(player)] = 0 - output.payoffs[player]

\* X holds the anti-diagonal of the 3x3 board after five moves, and the
\* game goes on.
C26_Witness ==
    /\ output.op = "play"
    /\ iter.size = 3
    /\ iter.turns = 5
    /\ occupies(iter, "X", {ivec2(2, 0), ivec2(1, 1), ivec2(0, 2)})
    /\ ~output.is_over
    /\ output.payoffs["X"] = 0

\* The columns, rows and the diagonal are won as C26 says; only a line
\* that is the anti-diagonal and no other is missed.
LineWinsButAntiDiagonal ==
    output.op = "play" =>
        /\ \A player \in Players : \A line \in Lines(iter.size) :
              (/\ occupies(iter, player, line)
               /\ \/ iter.size = 1
                  \/ line # {ivec2(iter.size - 1 - i, i) : i \in 0..(iter.size - 1)})
              => /\ output.is_over
                 /\ \A p \in Players : output.moves[p] = {}
                 /\ output.payoffs[player] > 0
                 /\ output.payoffs[Player_next(player)] = 0 - output.payoffs[player]
        /\ output.is_over <=> \A p \in Players : output.moves[p] = {}

\* C27: next returns the new state - the square marked for the current
\* player, turns + 1, the other player to move, all else unchanged - when
\* the map holds exactly one move, of the current player, to a square that
\* moves() yields; in every other case it returns None, and the receiver
\* is as before.
C27_NextOnlyForMoves ==
    output.op = "next" =>
        LET valid == /\ DOMAIN output.moves = {iter.player}
                     /\ output.moves[iter.player] \in moves(iter, iter.player)
        IN  /\ valid =>
                  /\ output.result # None
                  /\ output.result # Panic
                  /\ output.result.v.size = iter.size
                  /\ output.result.v.turns = iter.turns + 1
                  /\ output.result.v.player = Player_next(iter.player)
                  /\ \A c \in DOMAIN iter.board :
                        output.result.v.board[c] =
                            IF c = output.moves[iter.player] THEN Some(iter.player)
                            ELSE iter.board[c]
            /\ ~valid => output.result = None
            /\ output.receiver = iter

\* On the new 3x3 board X moves to (3, 0), a square outside the board.
C27_Witness ==
    /\ output.op = "next"
    /\ iter = State_new(3)
    /\ DOMAIN output.moves = {"X"}
    /\ output.moves["X"] = ivec2(3, 0)
    /\ output.result = Panic

\* next does as C27 says for every map but one with a single move of the
\* current player to a square outside the board while the game is on.
NextNoneButOutside ==
    output.op = "next" =>
        LET valid == /\ DOMAIN output.moves = {iter.player}
                     /\ output.moves[iter.player] \in moves(iter, iter.player)
            outside == /\ ~is_over(iter)
                       /\ DOMAIN output.moves = {iter.player}
                       /\ output.moves[iter.player] \notin DOMAIN iter.board
        IN  /\ valid => (output.result # None /\ output.result # Panic)
            /\ (~valid /\ ~outside) => output.result = None
            /\ outside <=> output.result = Panic
            /\ output.receiver = iter

(***************************************************************************)
(* SpecRingLive: SpecRing where the caller and the loops of utils::ring    *)
(* keep running while they can.                                            *)
(***************************************************************************)
SpecRingLive == SpecRing /\ WF_vars(NextRing)

\* C28: utils::ring terminates for every radius >= 1 (Triangle: >= 2):
\* every walk reaches the next corner, the corners come back to the start,
\* and the ring is returned, so that in the end the caller has the rings
\* of every radius.
C28_RingTerminates ==
    /\ (pc = "loop") ~> (pc = "call")
    /\ <>(pc = "call" /\ Len(output.rings) = MaxRadius + 1)

\* utils::ring has returned the Triangle ring of the largest radius, of
\* 18 * radius - 15 coordinates.
C28_Witness ==
    /\ pc = "call"
    /\ iter = Idle
    /\ input.kind = Triangle
    /\ Len(output.rings) = MaxRadius + 1
    /\ Cardinality(output.rings[MaxRadius + 1]) = 18 * MaxRadius - 15

(***************************************************************************)
(* SpecPoint: triangle::SizedGrid::screen_to_grid is called with a point   *)
(* of the screen.                                                          *)
(***************************************************************************)
InitPoint ==
    /\ pc = "point"
    /\ input \in [inradius : Inradii(Triangle), point : ScreenPoints]
    /\ iter = Idle
    /\ output = [op |-> "none"]

TriangleScreenToGrid ==
    /\ pc = "point"
    /\ \E result \in screen_to_grid(Triangle, input.inradius, input.point) :
          output' = [op |-> "screen_to_grid", result |-> result]
    /\ pc' = "done"
    /\ UNCHANGED <<input, iter>>

NextPoint == TriangleScreenToGrid

SpecPoint == InitPoint /\ [][NextPoint]_vars

\* C29: triangle screen_to_grid returns a coordinate for every screen
\* point: the assertion of from_cubical on the sum of the three ceiled
\* components never fails.
C29_ScreenToGridTotal ==
    output.op = "screen_to_grid" => output.result # Panic

\* The point (edge_length, circumradius) of the grid of inradius 1, where
\* the three components are 0.
C29_Witness ==
    /\ output.op = "screen_to_grid"
    /\ input.inradius = 1
    /\ input.point = [u |-> 2, v |-> 2]
    /\ output.result = Panic

\* The assertion fails only at the vertices of the cells; at every other
\* point a Triangle coordinate is returned.
PointPanicsOnlyAtVertices ==
    output.op = "screen_to_grid" =>
        IF output.result = Panic
        THEN input.point \in LatticeVertices(Triangle, input.inradius)
        ELSE output.result.kind = Triangle

\* C30: the iterator returned by screen_rect_to_grid yields no coordinate
\* twice and only coordinates of the finite set NearCoords, so that it has
\* returned None after at most Cardinality(NearCoords) + 1 calls of next().
C30_RectIteratorEnds ==
    output.op = "screen_rect_to_grid" =>
        LET seen == {output.yielded[i] : i \in DOMAIN output.yielded}
        IN  /\ Cardinality(seen) = Len(output.yielded)
            /\ seen \subseteq NearCoords(input.kind)
            /\ Len(output.yielded) <= Cardinality(NearCoords(input.kind))
            /\ (pc = "done" /\ output.returned = "Some") => output.done

\* A Triangle iterator has returned None after coordinates of more than
\* one row.
C30_Witness ==
    /\ pc = "done"
    /\ output.op = "screen_rect_to_grid"
    /\ output.done
    /\ input.kind = Triangle
    /\ Len(output.yielded) >= 4
    /\ \E i, j \in DOMAIN output.yielded :
          output.yielded[i].c.y # output.yielded[j].c.y

====
